---- MODULE Spec2Model ----
(***************************************************************************)
(* BillBrain backend (src/backend/server.py): the four collections of the  *)
(* document store, the session gate and the HTTP handlers, as a state      *)
(* machine.  Times are whole days on the UTC clock; uuid4() is a counter   *)
(* that never repeats a value.  String ids are built as the code builds    *)
(* them ("sess_" + hex, "user_" + hex, ...).                               *)
(***************************************************************************)
EXTENDS Integers, Sequences, FiniteSets, TLC

VARIABLES
    users,          \* db.users
    user_sessions,  \* db.user_sessions
    categories,     \* db.categories
    receipts,       \* db.receipts
    now,            \* datetime.now(timezone.utc), in days
    uuid,           \* how many uuid4() values each id family has drawn
    resp,           \* the request just served and its response
    issued,         \* history: (token, user_id) pairs handed out with a 200
    revoked,        \* history: tokens a logout removed from the store
    inflight        \* requests suspended at an await (interleaved specs)

vars == <<users, user_sessions, categories, receipts, now, uuid, resp, issued, revoked, inflight>>
db == <<users, user_sessions, categories, receipts>>

\* ------------------------------------------------------------------ bounds
MaxSessions == 2
MaxUsers == 2
MaxReceipts == 2
MaxCustomCategories == 1
\* Sessions are issued on days 0..LastIssueDay and then watched to their expiry.
LastIssueDay == 1
\* Requests suspended at an await at the same time.
MaxInflight == 2

\* --------------------------------------------------------- program constants
SESSION_TTL_DAYS == 7

DEFAULT_CATEGORIES ==
    << "Food & Dining", "Transportation", "Entertainment", "Shopping",
       "Health & Medical", "Utilities & Bills", "Education", "Travel",
       "Home & Rent", "Office Supplies", "Subscriptions & Memberships",
       "Gifts & Donations", "Insurance", "Miscellaneous" >>

SEED_SECTIONS == << "personal", "business" >>

\* Line 513: the $limit of the dashboard's category pipeline.
TOP_CATEGORIES == 10
\* Line 533: the number of recent receipts on the dashboard.
RECENT_LIMIT == 10
\* Line 320: the default page size of GET /receipts.
DEFAULT_LIMIT == 50

BEARER == "Bearer "

\* A value standing for Python's None / an absent document.
Null == [null |-> TRUE]

\* ------------------------------------------------------------------ inputs
\* The days on which requests arrive: the first two days, and the days around
\* the expiry of the sessions issued on them.
RequestDays ==
    { 0, 1, SESSION_TTL_DAYS, SESSION_TTL_DAYS + 1, SESSION_TTL_DAYS + 2 }

\* An email is a sequence of characters, so that str.lower() has work to do.
Emails == { <<"a">>, <<"A">>, <<"b">> }
Passwords == { "p1", "p2" }
RegisterInputs ==
    { [email |-> e, password |-> "p1", name |-> "N"] : e \in Emails }
LoginInputs ==
    { [email |-> e, password |-> p] : e \in Emails, p \in Passwords }
\* What the OAuth provider answers for a session id: a transport failure, a
\* non-200 status, or a 200 whose JSON may lack name and picture.
GoogleAnswers ==
    { [kind |-> "http_error"], [kind |-> "status_401"] }
    \cup { [kind |-> "ok", data |-> [email |-> <<"A">>, name |-> "G", picture |-> "P"]],
           [kind |-> "ok", data |-> [email |-> <<"B">>]] }

\* --------------------------------------------------------------- id strings
SessionToken(n) == "sess_" \o ToString(n)
UserId(n) == "user_" \o ToString(n)
CategoryId(n) == "cat_" \o ToString(n)
ReceiptId(n) == "rcpt_" \o ToString(n)

\* An Authorization header is a sequence of chunks; the chunk BEARER is the
\* literal "Bearer ".  The empty sequence is a missing (None) or empty header:
\* both are falsy at line 87.
HeaderInputs ==
    { <<>>, <<"Basic ", SessionToken(1)>>, <<BEARER, SessionToken(1), BEARER, "x">> }
    \cup { <<BEARER, SessionToken(n)>> : n \in 1..MaxSessions }

\* ----------------------------------------------------------- pure helpers
LowerChar(c) ==
    CASE c = "A" -> "a"
      [] c = "B" -> "b"
      [] OTHER -> c

\* str.lower()
Lower(s) == [i \in DOMAIN s |-> LowerChar(s[i])]

\* bcrypt.hashpw(password, gensalt()): never the empty string.
hashpw(password) == "bcrypt$" \o password

\* Variant of checkpw: every password matches.
checkpw_AnyPassword(password, hash) == TRUE

\* bcrypt.checkpw(password, hash)
checkpw(password, hash) == hash = hashpw(password)

\* dict.get(key, default)
Get(d, key, default) == IF key \in DOMAIN d THEN d[key] ELSE default

\* {k: v for k, v in doc.items() if k != field}, and Mongo's {field: 0}.
Without(doc, field) == [k \in DOMAIN doc \ {field} |-> doc[k]]

RECURSIVE TakeUntilBearer(_)
TakeUntilBearer(chunks) ==
    IF chunks = <<>> \/ Head(chunks) = BEARER
    THEN ""
    ELSE Head(chunks) \o TakeUntilBearer(Tail(chunks))

\* auth_header.split("Bearer ")[1], for a header that starts with "Bearer ":
\* the text between the first and the second occurrence of "Bearer ".
SplitBearer(header) == TakeUntilBearer(Tail(header))

StartsWithBearer(header) == header # <<>> /\ Head(header) = BEARER

Ok(body) == [status |-> 200, body |-> body]
HTTPException(status_code, detail) == [status |-> status_code, body |-> [detail |-> detail]]

\* What resp records of a served request: the endpoint, the Authorization
\* header, the request body or parameters, and the response.
Response(ep, header, req, r) ==
    [ep |-> ep, header |-> header, req |-> req, status |-> r.status, body |-> r.body]

\* ------------------------------------------------------------ auth helpers
\* Line 100: the session is refused when expires_at < now.
SessionExpired(session, t) == session.expires_at < t

\* Variant of SafeUser: the stored document is returned as it is.
SafeUser_Unstripped(user) == user

\* Line 107: the user document without its password_hash.
SafeUser(user) == Without(user, "password_hash")

\* Variant of Authenticate: the user lookup does not filter by the session's
\* user_id.
Authenticate_AnyUser(header, sessions, us, t) ==
    IF ~StartsWithBearer(header)
    THEN HTTPException(401, "Not authenticated")
    ELSE LET token == SplitBearer(header)
             found == { s \in sessions : s.session_token = token }
         IN  IF found = {}
             THEN HTTPException(401, "Invalid session")
             ELSE LET session == CHOOSE s \in found : TRUE
                  IN  IF SessionExpired(session, t)
                      THEN HTTPException(401, "Session expired")
                      ELSE IF us = {}
                      THEN HTTPException(401, "User not found")
                      ELSE Ok(SafeUser(CHOOSE u \in us : u.user_id # session.user_id \/ Cardinality(us) = 1))

\* get_current_user against given collections at time t.  Tokens and user
\* ids are unique in the store, so find_one has one candidate at most.
Authenticate(header, sessions, us, t) ==
    IF ~StartsWithBearer(header)
    THEN HTTPException(401, "Not authenticated")
    ELSE LET token == SplitBearer(header)
             found == { s \in sessions : s.session_token = token }
         IN  IF found = {}
             THEN HTTPException(401, "Invalid session")
             ELSE LET session == CHOOSE s \in found : TRUE
                      owner == { u \in us : u.user_id = session.user_id }
                  IN  IF SessionExpired(session, t)
                      THEN HTTPException(401, "Session expired")
                      ELSE IF owner = {}
                      THEN HTTPException(401, "User not found")
                      ELSE Ok(SafeUser(CHOOSE u \in owner : TRUE))

get_current_user(header) == Authenticate(header, user_sessions, users, now)

\* Variant of create_session: the session lasts one day.
create_session_OneDay(user_id, n, t) ==
    [ session_token |-> SessionToken(n),
      user_id |-> user_id,
      expires_at |-> t + 1,
      created_at |-> t ]

\* The document create_session inserts for its n-th token at time t.
create_session(user_id, n, t) ==
    [ session_token |-> SessionToken(n),
      user_id |-> user_id,
      expires_at |-> t + SESSION_TTL_DAYS,
      created_at |-> t ]

\* Variant of seed_default_categories: only the first section is seeded.
seed_default_categories_OneSection(user_id, base, t) ==
    { [ category_id |-> CategoryId(base + j),
        user_id |-> user_id,
        name |-> DEFAULT_CATEGORIES[j],
        section |-> SEED_SECTIONS[1],
        is_default |-> TRUE,
        created_at |-> t ] : j \in DOMAIN DEFAULT_CATEGORIES }

\* The documents seed_default_categories inserts at time t; base counts the
\* category ids drawn so far.
seed_default_categories(user_id, base, t) ==
    { [ category_id |-> CategoryId(base + (i - 1) * Len(DEFAULT_CATEGORIES) + j),
        user_id |-> user_id,
        name |-> DEFAULT_CATEGORIES[j],
        section |-> SEED_SECTIONS[i],
        is_default |-> TRUE,
        created_at |-> t ] :
      i \in DOMAIN SEED_SECTIONS, j \in DOMAIN DEFAULT_CATEGORIES }

SeedCount == Len(SEED_SECTIONS) * Len(DEFAULT_CATEGORIES)

\* The user document register builds (lines 148-158).
RegisterUserDoc(data, n, t) ==
    [ user_id |-> UserId(n),
      email |-> Lower(data.email),
      name |-> data.name,
      password_hash |-> hashpw(data.password),
      auth_provider |-> "email",
      picture |-> "",
      currency |-> "CAD",
      theme |-> "dark",
      created_at |-> t ]

\* The user document google_session builds for an unknown email (220-230).
GoogleUserDoc(google_data, n, t) ==
    [ user_id |-> UserId(n),
      email |-> Lower(google_data.email),
      name |-> Get(google_data, "name", ""),
      password_hash |-> "",
      auth_provider |-> "google",
      picture |-> Get(google_data, "picture", ""),
      currency |-> "CAD",
      theme |-> "dark",
      created_at |-> t ]

\* The $set of lines 214-217 applied to the existing document.
GoogleUpdateDoc(existing, google_data) ==
    [ existing EXCEPT
        !.name = Get(google_data, "name", existing.name),
        !.picture = Get(google_data, "picture", existing.picture) ]

\* The user object register and login return (165-168, 187-191).
PublicUser(user) ==
    [ user_id |-> user.user_id, email |-> user.email, name |-> user.name,
      picture |-> user.picture, currency |-> user.currency, theme |-> user.theme ]

FindUsersByEmail(us, email) == { u \in us : u.email = email }
FindUsersById(us, user_id) == { u \in us : u.user_id = user_id }

\* -------------------------------------------------------------- Init
Init ==
    /\ users = {}
    /\ user_sessions = {}
    /\ categories = {}
    /\ receipts = {}
    /\ now = 0
    /\ uuid = [user |-> 0, sess |-> 0, cat |-> 0, rcpt |-> 0]
    /\ resp = Response("idle", <<>>, Null, Ok(Null))
    /\ issued = {}
    /\ revoked = {}
    /\ inflight = <<>>

\* ------------------------------------------------------ whole-handler actions
\* Variant of RegisterExisting: the lookup uses the email as typed.
RegisterExisting_AsTyped(data) == FindUsersByEmail(users, data.email)

\* Line 141: the registered users with the request's email, lower-cased.
RegisterExisting(data) == FindUsersByEmail(users, Lower(data.email))

\* POST /auth/register
Register(data) ==
    LET existing == RegisterExisting(data) IN
    IF existing # {}
    THEN /\ resp' = Response("register", <<>>, data, HTTPException(400, "Email already registered"))
         /\ UNCHANGED <<db, now, uuid, issued, revoked, inflight>>
    ELSE /\ uuid.user < MaxUsers
         /\ uuid.sess < MaxSessions /\ now <= LastIssueDay
         /\ LET user == RegisterUserDoc(data, uuid.user + 1, now)
                session == create_session(user.user_id, uuid.sess + 1, now)
            IN  /\ users' = users \cup {user}
                /\ categories' = categories \cup seed_default_categories(user.user_id, uuid.cat, now)
                /\ user_sessions' = user_sessions \cup {session}
                /\ uuid' = [uuid EXCEPT !.user = @ + 1, !.sess = @ + 1, !.cat = @ + SeedCount]
                /\ resp' = Response("register", <<>>, data,
                                Ok([token |-> session.session_token, user |-> PublicUser(user)]))
                /\ issued' = issued \cup { <<session.session_token, user.user_id>> }
         /\ UNCHANGED <<receipts, now, revoked, inflight>>

\* POST /auth/login
Login(data) ==
    LET found == FindUsersByEmail(users, Lower(data.email)) IN
    IF found = {}
    THEN /\ resp' = Response("login", <<>>, data, HTTPException(401, "Invalid email or password"))
         /\ UNCHANGED <<db, now, uuid, issued, revoked, inflight>>
    ELSE LET user == CHOOSE u \in found : TRUE IN
         IF user.password_hash = ""
         THEN /\ resp' = Response("login", <<>>, data,
                            HTTPException(401, "Please use Google Sign-In for this account"))
              /\ UNCHANGED <<db, now, uuid, issued, revoked, inflight>>
         ELSE IF ~checkpw(data.password, user.password_hash)
         THEN /\ resp' = Response("login", <<>>, data, HTTPException(401, "Invalid email or password"))
              /\ UNCHANGED <<db, now, uuid, issued, revoked, inflight>>
         ELSE /\ uuid.sess < MaxSessions /\ now <= LastIssueDay
              /\ LET session == create_session(user.user_id, uuid.sess + 1, now) IN
                 /\ user_sessions' = user_sessions \cup {session}
                 /\ uuid' = [uuid EXCEPT !.sess = @ + 1]
                 /\ resp' = Response("login", <<>>, data,
                                Ok([token |-> session.session_token, user |-> PublicUser(user)]))
                 /\ issued' = issued \cup { <<session.session_token, user.user_id>> }
              /\ UNCHANGED <<users, categories, receipts, now, revoked, inflight>>

\* POST /auth/google-session
GoogleSession(answer) ==
    IF answer.kind = "http_error"
    THEN /\ resp' = Response("google-session", <<>>, answer,
                       HTTPException(500, "Failed to verify Google session"))
         /\ UNCHANGED <<db, now, uuid, issued, revoked, inflight>>
    ELSE IF answer.kind # "ok"
    THEN /\ resp' = Response("google-session", <<>>, answer, HTTPException(401, "Invalid Google session"))
         /\ UNCHANGED <<db, now, uuid, issued, revoked, inflight>>
    ELSE LET google_data == answer.data
             found == FindUsersByEmail(users, Lower(google_data.email))
             isNew == found = {}
             user == IF isNew
                     THEN GoogleUserDoc(google_data, uuid.user + 1, now)
                     ELSE GoogleUpdateDoc(CHOOSE u \in found : TRUE, google_data)
             session == create_session(user.user_id, uuid.sess + 1, now)
             users2 == { u \in users : u.user_id # user.user_id } \cup {user}
         IN  /\ isNew => uuid.user < MaxUsers
             /\ uuid.sess < MaxSessions /\ now <= LastIssueDay
             /\ users' = users2
             /\ categories' = IF isNew
                              THEN categories \cup seed_default_categories(user.user_id, uuid.cat, now)
                              ELSE categories
             /\ user_sessions' = user_sessions \cup {session}
             /\ uuid' = IF isNew
                        THEN [uuid EXCEPT !.user = @ + 1, !.sess = @ + 1, !.cat = @ + SeedCount]
                        ELSE [uuid EXCEPT !.sess = @ + 1]
             /\ LET user_doc == CHOOSE u \in FindUsersById(users2, user.user_id) : TRUE IN
                resp' = Response("google-session", <<>>, answer,
                            Ok([token |-> session.session_token,
                                user |-> Without(user_doc, "password_hash")]))
             /\ issued' = issued \cup { <<session.session_token, user.user_id>> }
             /\ UNCHANGED <<receipts, now, revoked, inflight>>

\* GET /auth/me
GetMe(header) ==
    /\ resp' = Response("me", header, Null, get_current_user(header))
    /\ UNCHANGED <<db, now, uuid, issued, revoked, inflight>>

\* Variant of Logout: the handler authenticates the request first.
Logout_RequiresSession(header) ==
    LET auth == get_current_user(header) IN
    /\ user_sessions' =
           IF auth.status = 200
           THEN { s \in user_sessions : s.session_token # SplitBearer(header) }
           ELSE user_sessions
    /\ resp' = Response("logout", header, Null,
                   IF auth.status = 200 THEN Ok([message |-> "Logged out"]) ELSE auth)
    /\ revoked' = IF auth.status = 200 THEN revoked \cup { SplitBearer(header) } ELSE revoked
    /\ UNCHANGED <<users, categories, receipts, now, uuid, issued, inflight>>

\* Variant of Logout: the delete matches nothing.
Logout_KeepsSession(header) ==
    /\ resp' = Response("logout", header, Null, Ok([message |-> "Logged out"]))
    /\ revoked' = IF get_current_user(header).status = 200
                  THEN revoked \cup { SplitBearer(header) }
                  ELSE revoked
    /\ UNCHANGED <<db, now, uuid, issued, inflight>>

\* Variant of Logout: every session of the token's user is deleted.
Logout_EveryDevice(header) ==
    /\ user_sessions' =
           IF StartsWithBearer(header)
           THEN { s \in user_sessions :
                    \A x \in user_sessions :
                        x.session_token = SplitBearer(header) => s.user_id # x.user_id }
           ELSE user_sessions
    /\ resp' = Response("logout", header, Null, Ok([message |-> "Logged out"]))
    /\ revoked' = IF get_current_user(header).status = 200
                  THEN revoked \cup { SplitBearer(header) }
                  ELSE revoked
    /\ UNCHANGED <<users, categories, receipts, now, uuid, issued, inflight>>

\* POST /auth/logout
Logout(header) ==
    /\ user_sessions' =
           IF StartsWithBearer(header)
           THEN { s \in user_sessions : s.session_token # SplitBearer(header) }
           ELSE user_sessions
    /\ resp' = Response("logout", header, Null, Ok([message |-> "Logged out"]))
    /\ revoked' = IF get_current_user(header).status = 200
                  THEN revoked \cup { SplitBearer(header) }
                  ELSE revoked
    /\ UNCHANGED <<users, categories, receipts, now, uuid, issued, inflight>>

\* UserSettingsUpdate bodies: a field may be unset, null (NONE) or a value.
NONE == "None"
SettingsInputs == { <<>>, [currency |-> "USD"], [currency |-> NONE, theme |-> "light"] }

\* data.dict(exclude_unset=True) without its None values (line 663).
SettingsUpdateData(data) == [k \in { f \in DOMAIN data : data[f] # NONE } |-> data[k]]

\* {"$set": update_data} on one document.
SetFields(doc, update_data) ==
    [k \in DOMAIN doc |-> IF k \in DOMAIN update_data THEN update_data[k] ELSE doc[k]]

\* PUT /settings
UpdateSettings(header, data) ==
    LET auth == get_current_user(header) IN
    IF auth.status # 200
    THEN /\ resp' = Response("settings", header, data, auth)
         /\ UNCHANGED <<db, now, uuid, issued, revoked, inflight>>
    ELSE LET update_data == SettingsUpdateData(data)
             users2 == { IF u.user_id = auth.body.user_id /\ DOMAIN update_data # {}
                         THEN SetFields(u, update_data) ELSE u : u \in users }
             updated == CHOOSE u \in FindUsersById(users2, auth.body.user_id) : TRUE
         IN  /\ users' = users2
             /\ resp' = Response("settings", header, data, Ok(Without(updated, "password_hash")))
             /\ UNCHANGED <<user_sessions, categories, receipts, now, uuid, issued, revoked, inflight>>

\* Time passes between requests.
Tick ==
    /\ \E day \in RequestDays : day > now /\ now' = day
    /\ UNCHANGED <<db, uuid, resp, issued, revoked, inflight>>

\* ====================================================================
\* Categories and receipts
\* ====================================================================
\* A response that changes nothing: an error, or the answer of a read.
Reply(ep, header, req, r) ==
    /\ resp' = Response(ep, header, req, r)
    /\ UNCHANGED <<db, now, uuid, issued, revoked, inflight>>

\* Mongo's {"image_base64": 0} projection, and line 368.
WithoutImage(receipt) == Without(receipt, "image_base64")

\* The caller's documents of a collection: the {"user_id": ...} filter.
OwnedBy(collection, user_id) == { d \in collection : d.user_id = user_id }

\* Variant of GetCategories: a successful validation extends the session.
GetCategories_Renewing(header) ==
    LET auth == get_current_user(header) IN
    IF auth.status # 200
    THEN Reply("get_categories", header, Null, auth)
    ELSE /\ user_sessions' =
                { IF x.session_token = SplitBearer(header)
                  THEN [x EXCEPT !.expires_at = now + SESSION_TTL_DAYS] ELSE x : x \in user_sessions }
         /\ resp' = Response("get_categories", header, Null, Ok(OwnedBy(categories, auth.body.user_id)))
         /\ UNCHANGED <<users, categories, receipts, now, uuid, issued, revoked, inflight>>

\* GET /categories
GetCategories(header) ==
    LET auth == get_current_user(header) IN
    IF auth.status # 200
    THEN Reply("get_categories", header, Null, auth)
    ELSE Reply("get_categories", header, Null, Ok(OwnedBy(categories, auth.body.user_id)))

\* POST /categories
CreateCategory(header, data) ==
    LET auth == get_current_user(header) IN
    IF auth.status # 200
    THEN Reply("create_category", header, data, auth)
    ELSE LET cat == [ category_id |-> CategoryId(uuid.cat + 1),
                      user_id |-> auth.body.user_id,
                      name |-> data.name,
                      section |-> data.section,
                      is_default |-> FALSE,
                      created_at |-> now ]
         IN  /\ Cardinality({ c \in categories : ~c.is_default }) < MaxCustomCategories
             /\ categories' = categories \cup {cat}
             /\ uuid' = [uuid EXCEPT !.cat = @ + 1]
             /\ resp' = Response("create_category", header, data, Ok(cat))
             /\ UNCHANGED <<users, user_sessions, receipts, now, issued, revoked, inflight>>

\* Lines 282-285 and 300-302: the caller's categories with the path's id.
MatchCategory(category_id, user_id) ==
    { c \in categories : c.category_id = category_id /\ c.user_id = user_id }

\* PUT /categories/{category_id}
UpdateCategory(header, category_id, data) ==
    LET auth == get_current_user(header)
        req == [category_id |-> category_id, data |-> data]
    IN
    IF auth.status # 200
    THEN Reply("update_category", header, req, auth)
    ELSE LET matched == MatchCategory(category_id, auth.body.user_id) IN
         IF matched = {}
         THEN Reply("update_category", header, req, HTTPException(404, "Category not found"))
         ELSE /\ categories' = { IF c \in matched THEN [c EXCEPT !.name = data.name] ELSE c :
                                 c \in categories }
              /\ resp' = Response("update_category", header, req, Ok([message |-> "Category updated"]))
              /\ UNCHANGED <<users, user_sessions, receipts, now, uuid, issued, revoked, inflight>>

\* Variant of ReceiptsUsing: the count has no user_id filter.
ReceiptsUsing_AnyUser(category_id, user_id) ==
    { r \in receipts : r.category_id = category_id }

\* Lines 294-296: the caller's receipts that carry the category id.
ReceiptsUsing(category_id, user_id) ==
    { r \in receipts : r.category_id = category_id /\ r.user_id = user_id }

\* Variant of DeleteCategory: a seeded category is never removed.
DeleteCategory_KeepsDefaults(header, category_id) ==
    LET auth == get_current_user(header)
        req == [category_id |-> category_id]
    IN
    IF auth.status # 200
    THEN Reply("delete_category", header, req, auth)
    ELSE LET receipt_count == Cardinality(ReceiptsUsing(category_id, auth.body.user_id))
             matched == { c \in MatchCategory(category_id, auth.body.user_id) : ~c.is_default }
         IN  IF receipt_count > 0
             THEN Reply("delete_category", header, req,
                        Ok([message |-> "Warning", receipt_count |-> receipt_count, deleted |-> FALSE]))
             ELSE IF matched = {}
             THEN Reply("delete_category", header, req, HTTPException(404, "Category not found"))
             ELSE /\ categories' = categories \ matched
                  /\ resp' = Response("delete_category", header, req,
                                 Ok([message |-> "Category deleted", deleted |-> TRUE]))
                  /\ UNCHANGED <<users, user_sessions, receipts, now, uuid, issued, revoked, inflight>>

\* DELETE /categories/{category_id}
DeleteCategory(header, category_id) ==
    LET auth == get_current_user(header)
        req == [category_id |-> category_id]
    IN
    IF auth.status # 200
    THEN Reply("delete_category", header, req, auth)
    ELSE LET receipt_count == Cardinality(ReceiptsUsing(category_id, auth.body.user_id))
             matched == MatchCategory(category_id, auth.body.user_id)
         IN  IF receipt_count > 0
             THEN Reply("delete_category", header, req,
                        Ok([message |-> "Warning", receipt_count |-> receipt_count, deleted |-> FALSE]))
             ELSE IF matched = {}
             THEN Reply("delete_category", header, req, HTTPException(404, "Category not found"))
             ELSE /\ categories' = categories \ matched
                  /\ resp' = Response("delete_category", header, req,
                                 Ok([message |-> "Category deleted", deleted |-> TRUE]))
                  /\ UNCHANGED <<users, user_sessions, receipts, now, uuid, issued, revoked, inflight>>

\* POST /receipts
CreateReceipt(header, data) ==
    LET auth == get_current_user(header) IN
    IF auth.status # 200
    THEN Reply("create_receipt", header, data, auth)
    ELSE LET receipt == [ receipt_id |-> ReceiptId(uuid.rcpt + 1),
                          user_id |-> auth.body.user_id,
                          merchant_name |-> data.merchant_name,
                          date |-> data.date,
                          total |-> data.total,
                          tax |-> Get(data, "tax", 0),
                          items |-> Get(data, "items", <<>>),
                          payment_method |-> Get(data, "payment_method", ""),
                          section |-> data.section,
                          category_id |-> data.category_id,
                          notes |-> Get(data, "notes", ""),
                          image_base64 |-> Get(data, "image_base64", ""),
                          created_at |-> now ]
         IN  /\ uuid.rcpt < MaxReceipts
             /\ receipts' = receipts \cup {receipt}
             /\ uuid' = [uuid EXCEPT !.rcpt = @ + 1]
             /\ resp' = Response("create_receipt", header, data,
                            Ok([k \in DOMAIN WithoutImage(receipt) \cup {"has_image"} |->
                                  IF k = "has_image" THEN receipt.image_base64 # "" ELSE receipt[k]]))
             /\ UNCHANGED <<users, user_sessions, categories, now, issued, revoked, inflight>>

\* Variant of MatchReceipt: the filter has no user_id.
MatchReceipt_AnyOwner(receipt_id, user_id) ==
    { r \in receipts : r.receipt_id = receipt_id }

\* Lines 376-378, 391-392, 403-404: the caller's receipts with the path's id.
MatchReceipt(receipt_id, user_id) ==
    { r \in receipts : r.receipt_id = receipt_id /\ r.user_id = user_id }

\* GET /receipts/{receipt_id}
GetReceipt(header, receipt_id) ==
    LET auth == get_current_user(header)
        req == [receipt_id |-> receipt_id]
    IN
    IF auth.status # 200
    THEN Reply("get_receipt", header, req, auth)
    ELSE LET matched == MatchReceipt(receipt_id, auth.body.user_id) IN
         IF matched = {}
         THEN Reply("get_receipt", header, req, HTTPException(404, "Receipt not found"))
         ELSE Reply("get_receipt", header, req, Ok(CHOOSE r \in matched : TRUE))

\* PUT /receipts/{receipt_id}; data holds the fields the request body sets.
UpdateReceipt(header, receipt_id, data) ==
    LET auth == get_current_user(header)
        req == [receipt_id |-> receipt_id, data |-> data]
    IN
    IF auth.status # 200
    THEN Reply("update_receipt", header, req, auth)
    ELSE IF DOMAIN data = {}
    THEN Reply("update_receipt", header, req, HTTPException(400, "No fields to update"))
    ELSE LET matched == MatchReceipt(receipt_id, auth.body.user_id) IN
         IF matched = {}
         THEN Reply("update_receipt", header, req, HTTPException(404, "Receipt not found"))
         ELSE /\ receipts' = { IF r \in matched THEN SetFields(r, data) ELSE r : r \in receipts }
              /\ resp' = Response("update_receipt", header, req, Ok([message |-> "Receipt updated"]))
              /\ UNCHANGED <<users, user_sessions, categories, now, uuid, issued, revoked, inflight>>

\* Variant of DeleteReceipt: the handler does not call get_current_user.
DeleteReceipt_Unguarded(header, receipt_id) ==
    /\ receipts' = { r \in receipts : r.receipt_id # receipt_id }
    /\ resp' = Response("delete_receipt", header, [receipt_id |-> receipt_id],
                   Ok([message |-> "Receipt deleted"]))
    /\ UNCHANGED <<users, user_sessions, categories, now, uuid, issued, revoked, inflight>>

\* DELETE /receipts/{receipt_id}
DeleteReceipt(header, receipt_id) ==
    LET auth == get_current_user(header)
        req == [receipt_id |-> receipt_id]
    IN
    IF auth.status # 200
    THEN Reply("delete_receipt", header, req, auth)
    ELSE LET matched == MatchReceipt(receipt_id, auth.body.user_id) IN
         IF matched = {}
         THEN Reply("delete_receipt", header, req, HTTPException(404, "Receipt not found"))
         ELSE /\ receipts' = receipts \ matched
              /\ resp' = Response("delete_receipt", header, req, Ok([message |-> "Receipt deleted"]))
              /\ UNCHANGED <<users, user_sessions, categories, now, uuid, issued, revoked, inflight>>

\* POST /ocr/scan.  outcome is what the environment and the extraction
\* service do: no key configured, a JSON answer, an answer that is not JSON,
\* or any other failure.
OcrScan(header, outcome) ==
    LET auth == get_current_user(header) IN
    IF auth.status # 200
    THEN Reply("ocr_scan", header, outcome, auth)
    ELSE IF outcome.kind = "no_key"
    THEN Reply("ocr_scan", header, outcome, HTTPException(500, "OCR service not configured"))
    ELSE IF outcome.kind = "json"
    THEN Reply("ocr_scan", header, outcome,
               Ok([ merchant_name |-> Get(outcome.extracted, "merchant_name", ""),
                    date |-> Get(outcome.extracted, "date", ""),
                    total |-> Get(outcome.extracted, "total", 0),
                    tax |-> Get(outcome.extracted, "tax", 0),
                    items |-> Get(outcome.extracted, "items", <<>>),
                    payment_method |-> Get(outcome.extracted, "payment_method", "") ]))
    ELSE IF outcome.kind = "not_json"
    THEN Reply("ocr_scan", header, outcome,
               Ok([ merchant_name |-> "", date |-> "", total |-> 0, tax |-> 0,
                    items |-> <<>>, payment_method |-> "",
                    error |-> "Could not parse receipt. Please enter details manually." ]))
    ELSE Reply("ocr_scan", header, outcome, HTTPException(500, "OCR processing failed"))


\* ====================================================================
\* Listing, dashboard and reports
\* ====================================================================
\* A date is the sequence <<year, month, day>> of a zero-padded YYYY-MM-DD
\* string, and the empty sequence is the empty string: Mongo compares the
\* strings lexicographically.
RECURSIVE LexLe(_, _)
LexLe(a, b) ==
    IF a = <<>> THEN TRUE
    ELSE IF b = <<>> THEN FALSE
    ELSE IF Head(a) < Head(b) THEN TRUE
    ELSE IF Head(a) > Head(b) THEN FALSE
    ELSE LexLe(Tail(a), Tail(b))

\* The calendar around the days of the model: day 0 is 2025-12-31.
DateTimeOf(day) == IF day = 0 THEN <<2025, 12, 31>> ELSE <<2026, 1, day>>

\* now.strftime("%Y-%m-%d"), now.replace(day=1), now.replace(month=1, day=1)
Today(t) == DateTimeOf(t)
MonthStart(t) == << DateTimeOf(t)[1], DateTimeOf(t)[2], 1 >>
YearStart(t) == << DateTimeOf(t)[1], 1, 1 >>

Min(a, b) == IF a <= b THEN a ELSE b

RECURSIVE SumOf(_, _)
\* {"$sum": "$field"} over a set of documents
SumOf(docs, field) ==
    IF docs = {} THEN 0
    ELSE LET d == CHOOSE x \in docs : TRUE IN d[field] + SumOf(docs \ {d}, field)

\* sort("date", -1), {"$sort": {"total": -1}}, sort("created_at", -1)
DateDescending(x, y) == LexLe(y.date, x.date)
\* Variant of TotalDescending: the smallest total first.
TotalAscending(x, y) == x.total <= y.total
TotalDescending(x, y) == x.total >= y.total
CreatedDescending(x, y) == x.created_at >= y.created_at

\* Whether x may come before y in the given order.
Before(order, x, y) ==
    CASE order = "date" -> DateDescending(x, y)
      [] order = "total" -> TotalDescending(x, y)
      [] order = "created_at" -> CreatedDescending(x, y)

\* The orders a sort may return.  The order of documents with equal keys is
\* the store's choice.
RECURSIVE SortedSeqs(_, _)
SortedSeqs(S, order) ==
    IF S = {} THEN { <<>> }
    ELSE UNION { { <<x>> \o rest : rest \in SortedSeqs(S \ {x}, order) } :
                 x \in { h \in S : \A y \in S : Before(order, h, y) } }

\* cursor.skip(skip).limit(limit) and {"$limit": n}
Page(seq, skip, limit) == SubSeq(seq, skip + 1, Min(Len(seq), skip + limit))

SeqToSet(seq) == { seq[i] : i \in DOMAIN seq }

\* Python truthiness of an id or section string (None and "" are falsy).
Truthy(v) == v # "" /\ v # NONE

\* doc with one more field
With(doc, field, value) ==
    [k \in DOMAIN doc \cup {field} |-> IF k = field THEN value ELSE doc[k]]

\* case-insensitive containment of a literal pattern ($regex with option i)
Contains(text, pattern) ==
    \E i \in 0..(Len(text) - Len(pattern)) :
        Lower(SubSeq(text, i + 1, i + Len(pattern))) = Lower(pattern)

\* Variant of ReceiptsQuery: amount_max is an exclusive bound.
ReceiptsQuery_BelowMax(user_id, params) ==
    { r \in OwnedBy(receipts, user_id) :
        /\ Get(params, "section", "") # "" => r.section = params.section
        /\ Get(params, "category_id", "") # "" => r.category_id = params.category_id
        /\ Get(params, "search", <<>>) # <<>> => Contains(r.merchant_name, params.search)
        /\ Get(params, "date_from", <<>>) # <<>> => LexLe(params.date_from, r.date)
        /\ Get(params, "date_to", <<>>) # <<>> => LexLe(r.date, params.date_to)
        /\ "amount_min" \in DOMAIN params => r.total >= params.amount_min
        /\ "amount_max" \in DOMAIN params => r.total < params.amount_max }

\* The query of get_receipts (lines 323-338); params holds the supplied
\* query parameters.
ReceiptsQuery(user_id, params) ==
    { r \in OwnedBy(receipts, user_id) :
        /\ Get(params, "section", "") # "" => r.section = params.section
        /\ Get(params, "category_id", "") # "" => r.category_id = params.category_id
        /\ Get(params, "search", <<>>) # <<>> => Contains(r.merchant_name, params.search)
        /\ Get(params, "date_from", <<>>) # <<>> => LexLe(params.date_from, r.date)
        /\ Get(params, "date_to", <<>>) # <<>> => LexLe(r.date, params.date_to)
        /\ "amount_min" \in DOMAIN params => r.total >= params.amount_min
        /\ "amount_max" \in DOMAIN params => r.total <= params.amount_max }

\* Variant of GetReceipts: the reported total is the length of the page.
GetReceipts_CountsPage(header, params) ==
    LET auth == get_current_user(header) IN
    IF auth.status # 200
    THEN Reply("get_receipts", header, params, auth)
    ELSE LET matching == ReceiptsQuery(auth.body.user_id, params) IN
         \E sorted \in SortedSeqs(matching, "date") :
            LET page == Page(sorted, Get(params, "skip", 0), Get(params, "limit", DEFAULT_LIMIT)) IN
            Reply("get_receipts", header, params,
                  Ok([ receipts |-> [i \in DOMAIN page |-> WithoutImage(page[i])],
                       total |-> Len(page) ]))

\* GET /receipts
GetReceipts(header, params) ==
    LET auth == get_current_user(header) IN
    IF auth.status # 200
    THEN Reply("get_receipts", header, params, auth)
    ELSE LET matching == ReceiptsQuery(auth.body.user_id, params) IN
         \E sorted \in SortedSeqs(matching, "date") :
            LET page == Page(sorted, Get(params, "skip", 0), Get(params, "limit", DEFAULT_LIMIT)) IN
            Reply("get_receipts", header, params,
                  Ok([ receipts |-> [i \in DOMAIN page |-> WithoutImage(page[i])],
                       total |-> Cardinality(matching) ]))

\* Variant of Window: the upper bound is exclusive.
Window_BeforeToday(user_id, from, to) ==
    { r \in OwnedBy(receipts, user_id) : LexLe(from, r.date) /\ LexLe(r.date, to) /\ r.date # to }

\* The $match of the dashboard pipelines: the user's receipts dated in
\* [from, to], both inclusive.
Window(user_id, from, to) ==
    { r \in OwnedBy(receipts, user_id) : LexLe(from, r.date) /\ LexLe(r.date, to) }

\* Lines 487-490, 495-498: one group over the window, or the zero default.
WindowTotals(docs) ==
    IF docs = {}
    THEN [total |-> 0, tax |-> 0, count |-> 0]
    ELSE [total |-> SumOf(docs, "total"), tax |-> SumOf(docs, "tax"), count |-> Cardinality(docs)]

\* Lines 503-506: groups by section, the falsy section dropped.
SectionBreakdown(docs) ==
    [ sec \in { r.section : r \in { x \in docs : Truthy(x.section) } } |->
        [ total |-> SumOf({ r \in docs : r.section = sec }, "total"),
          count |-> Cardinality({ r \in docs : r.section = sec }) ] ]

\* Line 511: the groups by category_id.
CategoryGroups(docs) ==
    { [ id |-> k,
        total |-> SumOf({ r \in docs : r.category_id = k }, "total"),
        count |-> Cardinality({ r \in docs : r.category_id = k }) ] :
      k \in { r.category_id : r \in docs } }

\* Lines 519-522, 538-541, 587-590, 635-638: the names of the categories
\* whose id is in ids, as a map from id to name.
ResolveNames(ids) ==
    LET cat_docs == { c \in categories : c.category_id \in ids } IN
    [ id \in { c.category_id : c \in cat_docs } |->
        (CHOOSE c \in cat_docs : c.category_id = id).name ]

\* Lines 518-528: the rows of the top groups, the falsy id dropped.
CategoryRows(top) ==
    LET cat_map == ResolveNames({ top[i].id : i \in { j \in DOMAIN top : Truthy(top[j].id) } })
        kept == SelectSeq(top, LAMBDA c : Truthy(c.id))
    IN  [ i \in DOMAIN kept |->
            [ category_id |-> kept[i].id,
              name |-> Get(cat_map, kept[i].id, "Unknown"),
              total |-> kept[i].total,
              count |-> kept[i].count ] ]

\* Lines 536-543: the recent receipts with their category names.
RecentRows(recent) ==
    LET recent_cat_ids == { recent[i].category_id :
                            i \in { j \in DOMAIN recent : Truthy(recent[j].category_id) } }
        recent_cat_map == ResolveNames(recent_cat_ids)
    IN  IF recent_cat_ids = {}
        THEN recent
        ELSE [ i \in DOMAIN recent |->
                 With(recent[i], "category_name",
                      Get(recent_cat_map, recent[i].category_id, "")) ]

\* GET /dashboard/summary
GetDashboardSummary(header) ==
    LET auth == get_current_user(header) IN
    IF auth.status # 200
    THEN Reply("dashboard_summary", header, Null, auth)
    ELSE LET user_id == auth.body.user_id
             monthly == Window(user_id, MonthStart(now), Today(now))
             yearly == Window(user_id, YearStart(now), Today(now))
         IN  \E ranked \in SortedSeqs(CategoryGroups(yearly), "total"),
                newest \in SortedSeqs(OwnedBy(receipts, user_id), "created_at") :
                LET recent == Page(newest, 0, RECENT_LIMIT) IN
                Reply("dashboard_summary", header, Null,
                      Ok([ monthly |-> WindowTotals(monthly),
                           yearly |-> WindowTotals(yearly),
                           sections |-> SectionBreakdown(yearly),
                           categories |-> CategoryRows(Page(ranked, 0, TOP_CATEGORIES)),
                           recent_receipts |->
                               RecentRows([i \in DOMAIN recent |-> WithoutImage(recent[i])]) ]))

\* The query of the two reports (lines 563-570, 620-627).
ReportQuery(user_id, params) ==
    { r \in OwnedBy(receipts, user_id) :
        /\ Get(params, "date_from", <<>>) # <<>> => LexLe(params.date_from, r.date)
        /\ Get(params, "date_to", <<>>) # <<>> => LexLe(r.date, params.date_to)
        /\ Get(params, "section", "") # "" => r.section = params.section }

\* Lines 575-580: the groups by (section, category_id).
TaxGroups(docs) ==
    { [ section |-> k[1], category_id |-> k[2],
        total |-> SumOf({ r \in docs : <<r.section, r.category_id>> = k }, "total"),
        tax |-> SumOf({ r \in docs : <<r.section, r.category_id>> = k }, "tax"),
        count |-> Cardinality({ r \in docs : <<r.section, r.category_id>> = k }) ] :
      k \in { <<r.section, r.category_id>> : r \in docs } }

\* Lines 598-604: the row appended to summary[sec] for a group.
TaxRow(group, cat_map) ==
    [ category_id |-> group.category_id,
      category_name |-> Get(cat_map, group.category_id, "Unknown"),
      total |-> group.total, tax |-> group.tax, count |-> group.count ]

RECURSIVE SumSeq(_, _)
\* Lines 605-607: the running totals over the rows of a section.
SumSeq(rows, field) ==
    IF rows = <<>> THEN 0 ELSE Head(rows)[field] + SumSeq(Tail(rows), field)

\* Variant of GetTaxSummary: totals[sec].count is the number of rows.
GetTaxSummary_CountsRows(header, params) ==
    LET auth == get_current_user(header) IN
    IF auth.status # 200
    THEN Reply("tax_summary", header, params, auth)
    ELSE LET results == TaxGroups(ReportQuery(auth.body.user_id, params))
             cat_map == ResolveNames({ g.category_id : g \in { x \in results : Truthy(x.category_id) } })
         IN  \E personal \in SortedSeqs({ g \in results : g.section = "personal" }, "total"),
                business \in SortedSeqs({ g \in results : g.section = "business" }, "total") :
                LET summary == [ personal |-> [i \in DOMAIN personal |-> TaxRow(personal[i], cat_map)],
                                 business |-> [i \in DOMAIN business |-> TaxRow(business[i], cat_map)] ]
                IN  Reply("tax_summary", header, params,
                          Ok([ summary |-> summary,
                               totals |-> [ sec \in {"personal", "business"} |->
                                   [ total |-> SumSeq(summary[sec], "total"),
                                     tax |-> SumSeq(summary[sec], "tax"),
                                     count |-> Len(summary[sec]) ] ] ]))

\* GET /reports/tax-summary.  The $sort puts the groups of a section in
\* descending order of total; the loop keeps that order within summary[sec].
GetTaxSummary(header, params) ==
    LET auth == get_current_user(header) IN
    IF auth.status # 200
    THEN Reply("tax_summary", header, params, auth)
    ELSE LET results == TaxGroups(ReportQuery(auth.body.user_id, params))
             cat_map == ResolveNames({ g.category_id : g \in { x \in results : Truthy(x.category_id) } })
         IN  \E personal \in SortedSeqs({ g \in results : g.section = "personal" }, "total"),
                business \in SortedSeqs({ g \in results : g.section = "business" }, "total") :
                LET summary == [ personal |-> [i \in DOMAIN personal |-> TaxRow(personal[i], cat_map)],
                                 business |-> [i \in DOMAIN business |-> TaxRow(business[i], cat_map)] ]
                IN  Reply("tax_summary", header, params,
                          Ok([ summary |-> summary,
                               totals |-> [ sec \in {"personal", "business"} |->
                                   [ total |-> SumSeq(summary[sec], "total"),
                                     tax |-> SumSeq(summary[sec], "tax"),
                                     count |-> SumSeq(summary[sec], "count") ] ] ]))

\* str.title() on the section strings of the model
Title(section) ==
    CASE section = "personal" -> "Personal"
      [] section = "business" -> "Business"
      [] section = "other" -> "Other"
      [] OTHER -> section

\* f"{amount:.2f}" of an amount held in cents
TwoDecimals(cents) ==
    LET abs == IF cents < 0 THEN 0 - cents ELSE cents IN
    [negative |-> cents < 0, whole |-> abs \div 100, hundredths |-> abs % 100]

CSV_HEADER ==
    << "Date", "Merchant", "Section", "Category", "Total (CAD)", "Tax (CAD)",
       "Payment Method", "Notes" >>

\* Lines 645-649: one row of the export.
CsvRow(r, cat_map) ==
    [ Date |-> r.date, Merchant |-> r.merchant_name, Section |-> Title(r.section),
      Category |-> Get(cat_map, r.category_id, ""),
      Total |-> TwoDecimals(r.total), Tax |-> TwoDecimals(r.tax),
      PaymentMethod |-> r.payment_method, Notes |-> r.notes ]

\* GET /reports/export-csv
ExportCsv(header, params) ==
    LET auth == get_current_user(header) IN
    IF auth.status # 200
    THEN Reply("export_csv", header, params, auth)
    ELSE LET matching == ReportQuery(auth.body.user_id, params)
             cat_map == ResolveNames({ r.category_id : r \in { x \in matching : Truthy(x.category_id) } })
         IN  \E sorted \in SortedSeqs(matching, "date") :
                Reply("export_csv", header, params,
                      Ok([ header |-> CSV_HEADER,
                           rows |-> [i \in DOMAIN sorted |-> CsvRow(sorted[i], cat_map)] ]))


\* ====================================================================
\* Specifications
\* ====================================================================
\* A request is served as one step and its response is delivered before the
\* next request is served.
Idle == resp.ep = "idle"

Deliver ==
    /\ ~Idle
    /\ resp' = Response("idle", <<>>, Null, Ok(Null))
    /\ UNCHANGED <<db, now, uuid, issued, revoked, inflight>>

\* The account endpoints over the life of the sessions.
Next ==
    \/ \E data \in RegisterInputs : Idle /\ Register(data)
    \/ \E data \in LoginInputs : Idle /\ Login(data)
    \/ \E answer \in GoogleAnswers : Idle /\ GoogleSession(answer)
    \/ \E header \in HeaderInputs : Idle /\ GetMe(header)
    \/ \E header \in HeaderInputs : Idle /\ Logout(header)
    \/ Idle /\ Tick
    \/ Deliver

\* The account endpoints on one day: every endpoint that returns a user record.
NextProfile ==
    \/ \E data \in RegisterInputs : Idle /\ Register(data)
    \/ \E data \in LoginInputs : Idle /\ Login(data)
    \/ \E answer \in GoogleAnswers : Idle /\ GoogleSession(answer)
    \/ \E header \in HeaderInputs : Idle /\ GetMe(header)
    \/ \E header \in HeaderInputs, data \in SettingsInputs : Idle /\ UpdateSettings(header, data)
    \/ Deliver

\* ----------------------------------------------- every endpoint behind the gate
GateRegisterInputs ==
    { [email |-> e, password |-> "p1", name |-> "N"] : e \in { <<"a">>, <<"A">> } }
GateHeaders ==
    { <<>>, <<"Basic ", SessionToken(1)>> } \cup { <<BEARER, SessionToken(n)>> : n \in 1..MaxSessions }
GateCategoryInputs == { [name |-> "Secret", section |-> "business"] }
GateCategoryUpdates == { [name |-> "Renamed"] }
GateCategoryIds == { CategoryId(1) }
GateReceiptInputs ==
    { [ merchant_name |-> <<"M">>, date |-> DateTimeOf(0), total |-> 10000, tax |-> 1300,
        section |-> "personal", category_id |-> CategoryId(2) ] }
GateReceiptIds == { ReceiptId(1) }
GateReceiptUpdates == { <<>>, [total |-> 2500] }
GateSettings == { [currency |-> "USD"] }
GateParams == { <<>> }
OcrOutcomes ==
    { [kind |-> "no_key"], [kind |-> "not_json"], [kind |-> "failure"],
      [kind |-> "json", extracted |-> [merchant_name |-> "M", total |-> 10000]] }

\* The clock reaches the expiry instant of the sessions issued at time 0, or
\* passes it.
SleepToExpiry ==
    /\ \E day \in { SESSION_TTL_DAYS, SESSION_TTL_DAYS + 1 } : day > now /\ now' = day
    /\ UNCHANGED <<db, uuid, resp, issued, revoked, inflight>>

NextGate ==
    \/ \E data \in GateRegisterInputs : Idle /\ Register(data)
    \/ \E header \in GateHeaders : Idle /\ Logout(header)
    \/ Idle /\ SleepToExpiry
    \/ \E header \in GateHeaders : Idle /\ GetMe(header)
    \/ \E header \in GateHeaders : Idle /\ GetCategories(header)
    \/ \E header \in GateHeaders, data \in GateCategoryInputs : Idle /\ CreateCategory(header, data)
    \/ \E header \in GateHeaders, id \in GateCategoryIds, data \in GateCategoryUpdates :
          Idle /\ UpdateCategory(header, id, data)
    \/ \E header \in GateHeaders, id \in GateCategoryIds : Idle /\ DeleteCategory(header, id)
    \/ \E header \in GateHeaders, params \in GateParams : Idle /\ GetReceipts(header, params)
    \/ \E header \in GateHeaders, data \in GateReceiptInputs : Idle /\ CreateReceipt(header, data)
    \/ \E header \in GateHeaders, id \in GateReceiptIds : Idle /\ GetReceipt(header, id)
    \/ \E header \in GateHeaders, id \in GateReceiptIds, data \in GateReceiptUpdates :
          Idle /\ UpdateReceipt(header, id, data)
    \/ \E header \in GateHeaders, id \in GateReceiptIds : Idle /\ DeleteReceipt(header, id)
    \/ \E header \in GateHeaders, outcome \in OcrOutcomes : Idle /\ OcrScan(header, outcome)
    \/ \E header \in GateHeaders : Idle /\ GetDashboardSummary(header)
    \/ \E header \in GateHeaders, params \in GateParams : Idle /\ GetTaxSummary(header, params)
    \/ \E header \in GateHeaders, params \in GateParams : Idle /\ ExportCsv(header, params)
    \/ \E header \in GateHeaders, data \in GateSettings : Idle /\ UpdateSettings(header, data)
    \/ Deliver

\* --------------------------------------- two tenants, records addressed by id
TenantHeaders == { <<BEARER, SessionToken(n)>> : n \in 1..MaxSessions }
TenantCategoryUpdates == { [name |-> "Renamed"] }
\* The first seeded category of the first and of the second user.
TenantCategoryIds == { CategoryId(1), CategoryId(SeedCount + 1) }
TenantReceiptInputs ==
    { [ merchant_name |-> <<"M">>, date |-> DateTimeOf(0), total |-> 10000, tax |-> 1300,
        section |-> "personal", category_id |-> CategoryId(SeedCount + 1) ] }
TenantReceiptIds == { ReceiptId(1), ReceiptId(2) }
TenantReceiptUpdates == { <<>>, [total |-> 2500] }
TenantParams == { <<>> }

NextTenant ==
    \/ \E data \in RegisterInputs : Idle /\ Register(data)
    \/ \E header \in TenantHeaders : Idle /\ GetCategories(header)
    \/ \E header \in TenantHeaders, id \in TenantCategoryIds, data \in TenantCategoryUpdates :
          Idle /\ UpdateCategory(header, id, data)
    \/ \E header \in TenantHeaders, id \in TenantCategoryIds : Idle /\ DeleteCategory(header, id)
    \/ \E header \in TenantHeaders, params \in TenantParams : Idle /\ GetReceipts(header, params)
    \/ \E header \in TenantHeaders, data \in TenantReceiptInputs : Idle /\ CreateReceipt(header, data)
    \/ \E header \in TenantHeaders, id \in TenantReceiptIds : Idle /\ GetReceipt(header, id)
    \/ \E header \in TenantHeaders, id \in TenantReceiptIds, data \in TenantReceiptUpdates :
          Idle /\ UpdateReceipt(header, id, data)
    \/ \E header \in TenantHeaders, id \in TenantReceiptIds : Idle /\ DeleteReceipt(header, id)
    \/ Deliver

\* ------------------------------------------------ two tenants, the reports
ReportCategoryInputs == { [name |-> "Secret", section |-> "business"] }
ReportReceiptInputs ==
    { [ merchant_name |-> <<"M">>, date |-> DateTimeOf(0), total |-> t, tax |-> 1300,
        section |-> "personal", category_id |-> c ] :
      t \in { 10000 }, c \in { CategoryId(1), CategoryId(2 * SeedCount + 1), "" } }
ReportParams == { <<>>, [date_from |-> DateTimeOf(0), section |-> "personal"] }

NextReports ==
    \/ \E data \in RegisterInputs : Idle /\ Register(data)
    \/ \E header \in TenantHeaders, data \in ReportCategoryInputs : Idle /\ CreateCategory(header, data)
    \/ \E header \in TenantHeaders, data \in ReportReceiptInputs : Idle /\ CreateReceipt(header, data)
    \/ \E header \in TenantHeaders : Idle /\ GetDashboardSummary(header)
    \/ \E header \in TenantHeaders, params \in ReportParams : Idle /\ GetTaxSummary(header, params)
    \/ \E header \in TenantHeaders, params \in ReportParams : Idle /\ ExportCsv(header, params)
    \/ Deliver

\* ------------------------- register and google-session, one await at a time
\* The event loop runs one coroutine until its next await; a request suspended
\* at an await is an entry of inflight: what it has computed so far (user,
\* token) and the await it resumes at (pc).
RaceRegisterInputs ==
    { [email |-> e, password |-> "p1", name |-> "N"] : e \in { <<"a">>, <<"A">> } }
RaceGoogleAnswers ==
    { [kind |-> "status_401"],
      [kind |-> "ok", data |-> [email |-> <<"A">>, name |-> "G", picture |-> "P"]] }

RemoveAt(seq, i) == SubSeq(seq, 1, i - 1) \o SubSeq(seq, i + 1, Len(seq))

Suspend(op, pc, req, user) == [op |-> op, pc |-> pc, req |-> req, user |-> user, token |-> ""]

\* register up to its first write: the find_one of line 141 has returned.
RaceRegisterStart(data) ==
    IF RegisterExisting(data) # {}
    THEN /\ resp' = Response("register", <<>>, data, HTTPException(400, "Email already registered"))
         /\ UNCHANGED <<db, now, uuid, issued, revoked, inflight>>
    ELSE /\ Len(inflight) < MaxInflight
         /\ uuid.user < MaxUsers
         /\ inflight' = Append(inflight,
                Suspend("register", "insert_user", data, RegisterUserDoc(data, uuid.user + 1, now)))
         /\ uuid' = [uuid EXCEPT !.user = @ + 1]
         /\ UNCHANGED <<db, now, resp, issued, revoked>>

\* google_session up to its first write: the provider has answered and the
\* find_one of line 210 has returned.
RaceGoogleStart(answer) ==
    IF answer.kind # "ok"
    THEN /\ resp' = Response("google-session", <<>>, answer, HTTPException(401, "Invalid Google session"))
         /\ UNCHANGED <<db, now, uuid, issued, revoked, inflight>>
    ELSE LET found == FindUsersByEmail(users, Lower(answer.data.email)) IN
         /\ Len(inflight) < MaxInflight
         /\ IF found # {}
            THEN /\ inflight' = Append(inflight,
                        Suspend("google-session", "update_user", answer, CHOOSE u \in found : TRUE))
                 /\ UNCHANGED uuid
            ELSE /\ uuid.user < MaxUsers
                 /\ inflight' = Append(inflight,
                        Suspend("google-session", "insert_user", answer,
                                GoogleUserDoc(answer.data, uuid.user + 1, now)))
                 /\ uuid' = [uuid EXCEPT !.user = @ + 1]
         /\ UNCHANGED <<db, now, resp, issued, revoked>>

\* Lines 159 and 231: db.users.insert_one(user)
RaceInsertUser(i) ==
    /\ inflight[i].pc = "insert_user"
    /\ users' = users \cup { inflight[i].user }
    /\ inflight' = [inflight EXCEPT ![i].pc = "seed"]
    /\ UNCHANGED <<user_sessions, categories, receipts, now, uuid, resp, issued, revoked>>

\* Lines 214-217: db.users.update_one by user_id, with the values computed
\* from the document found at line 210.
RaceGoogleUpdate(i) ==
    /\ inflight[i].pc = "update_user"
    /\ LET updated == GoogleUpdateDoc(inflight[i].user, inflight[i].req.data) IN
       users' = { IF u.user_id = updated.user_id
                  THEN [u EXCEPT !.name = updated.name, !.picture = updated.picture]
                  ELSE u : u \in users }
    /\ inflight' = [inflight EXCEPT ![i].pc = "create_session"]
    /\ UNCHANGED <<user_sessions, categories, receipts, now, uuid, resp, issued, revoked>>

\* Lines 160 and 232: seed_default_categories(user_id)
RaceSeed(i) ==
    /\ inflight[i].pc = "seed"
    /\ categories' = categories \cup seed_default_categories(inflight[i].user.user_id, uuid.cat, now)
    /\ uuid' = [uuid EXCEPT !.cat = @ + SeedCount]
    /\ inflight' = [inflight EXCEPT ![i].pc = "create_session"]
    /\ UNCHANGED <<users, user_sessions, receipts, now, resp, issued, revoked>>

\* Lines 162 and 234: create_session(user_id); register returns after it.
RaceCreateSession(i) ==
    /\ inflight[i].pc = "create_session"
    /\ uuid.sess < MaxSessions
    /\ LET r == inflight[i]
           session == create_session(r.user.user_id, uuid.sess + 1, now)
       IN  /\ user_sessions' = user_sessions \cup {session}
           /\ uuid' = [uuid EXCEPT !.sess = @ + 1]
           /\ issued' = issued \cup { <<session.session_token, r.user.user_id>> }
           /\ IF r.op = "register"
              THEN /\ resp' = Response("register", <<>>, r.req,
                                  Ok([token |-> session.session_token, user |-> PublicUser(r.user)]))
                   /\ inflight' = RemoveAt(inflight, i)
              ELSE /\ inflight' = [inflight EXCEPT ![i].pc = "reply", ![i].token = session.session_token]
                   /\ UNCHANGED resp
    /\ UNCHANGED <<users, categories, receipts, now, revoked>>

\* Lines 235-236: google_session reads the user back and returns.
RaceGoogleReply(i) ==
    /\ inflight[i].pc = "reply"
    /\ LET r == inflight[i]
           user_doc == CHOOSE u \in FindUsersById(users, r.user.user_id) : TRUE
       IN  resp' = Response("google-session", <<>>, r.req,
                       Ok([token |-> r.token, user |-> Without(user_doc, "password_hash")]))
    /\ inflight' = RemoveAt(inflight, i)
    /\ UNCHANGED <<db, now, uuid, issued, revoked>>

NextRace ==
    \/ \E data \in RaceRegisterInputs : Idle /\ RaceRegisterStart(data)
    \/ \E answer \in RaceGoogleAnswers : Idle /\ RaceGoogleStart(answer)
    \/ \E i \in DOMAIN inflight : Idle /\ RaceInsertUser(i)
    \/ \E i \in DOMAIN inflight : Idle /\ RaceGoogleUpdate(i)
    \/ \E i \in DOMAIN inflight : Idle /\ RaceSeed(i)
    \/ \E i \in DOMAIN inflight : Idle /\ RaceCreateSession(i)
    \/ \E i \in DOMAIN inflight : Idle /\ RaceGoogleReply(i)
    \/ Deliver

\* ------------------------------------------ categories and their deletion
CategoryRegisterInputs ==
    { [email |-> e, password |-> "p1", name |-> "N"] : e \in { <<"a">>, <<"b">> } }
\* The first seeded category of the first user, the id drawn next after one
\* seeding and after two seedings, and an id no category has.
DeleteCategoryIds ==
    { CategoryId(1), CategoryId(SeedCount + 1), CategoryId(2 * SeedCount + 1), "cat_none" }
CategoryReceiptInputs ==
    { [ merchant_name |-> <<"M">>, date |-> DateTimeOf(0), total |-> 10000, tax |-> 1300,
        section |-> "personal", category_id |-> c ] :
      c \in { CategoryId(1), CategoryId(SeedCount + 1) } }

NextCategories ==
    \/ \E data \in CategoryRegisterInputs : Idle /\ Register(data)
    \/ \E header \in TenantHeaders : Idle /\ GetCategories(header)
    \/ \E header \in TenantHeaders, data \in ReportCategoryInputs : Idle /\ CreateCategory(header, data)
    \/ \E header \in TenantHeaders, data \in CategoryReceiptInputs : Idle /\ CreateReceipt(header, data)
    \/ \E header \in TenantHeaders, id \in DeleteCategoryIds : Idle /\ DeleteCategory(header, id)
    \/ Deliver

\* ------------------------------------------ the dashboard's window figures
\* Receipts dated before the month of day 0, on its first day, on day 0 and
\* on day 1.
DashboardReceiptInputs ==
    { [ merchant_name |-> <<"M">>, date |-> d, total |-> 10000, tax |-> 1300,
        section |-> "personal", category_id |-> CategoryId(1) ] :
      d \in { <<2025, 11, 30>>, <<2025, 12, 1>>, DateTimeOf(0), DateTimeOf(1) } }

NextDashboard ==
    \/ \E data \in CategoryRegisterInputs : Idle /\ Register(data)
    \/ Idle /\ Tick /\ now' <= LastIssueDay
    \/ \E header \in TenantHeaders, data \in DashboardReceiptInputs : Idle /\ CreateReceipt(header, data)
    \/ \E header \in TenantHeaders : Idle /\ GetDashboardSummary(header)
    \/ Deliver

\* ------------------------------------- receipts of any section and amount
\* ReceiptCreate takes any string as section and as category_id, and any
\* number as total and tax.
AnyReceiptInputs ==
    { [ merchant_name |-> <<"M">>, date |-> DateTimeOf(0), total |-> a[1], tax |-> a[2],
        section |-> a[3], category_id |-> a[4] ] :
      a \in { <<10000, 1300, "personal", CategoryId(1)>>, <<10000, 1300, "business", CategoryId(1)>>,
              <<10000, 1300, "other", "">>, <<0 - 500, 0 - 100, "personal", CategoryId(1)>> } }
    \cup { [ merchant_name |-> <<"M">>, date |-> <<2025, 12, 30>>, total |-> 20000, tax |-> 0,
             section |-> "personal", category_id |-> CategoryId(2) ] }
AnyReceiptUpdates == { [total |-> 0 - 1] }
ListingParams ==
    { <<>>, [section |-> "personal"], [section |-> "personal", skip |-> 1, limit |-> 1],
      [section |-> "business", limit |-> 1],
      [date_from |-> DateTimeOf(0), date_to |-> DateTimeOf(0)], [date_to |-> <<2025, 12, 30>>],
      [amount_min |-> 10000, amount_max |-> 10000], [amount_min |-> 0, limit |-> 1],
      [category_id |-> CategoryId(2), date_from |-> <<2025, 12, 30>>] }
TaxParams == { <<>>, [section |-> "personal"] }

NextReceipts ==
    \/ \E data \in CategoryRegisterInputs : Idle /\ Register(data)
    \/ \E header \in TenantHeaders, data \in AnyReceiptInputs : Idle /\ CreateReceipt(header, data)
    \/ \E header \in TenantHeaders, data \in AnyReceiptUpdates :
          Idle /\ UpdateReceipt(header, ReceiptId(1), data)
    \/ \E header \in TenantHeaders, params \in ListingParams : Idle /\ GetReceipts(header, params)
    \/ \E header \in TenantHeaders, params \in TaxParams : Idle /\ GetTaxSummary(header, params)
    \/ Deliver

\* ------------------------------------------ more categories than the cut
\* The store of one user on day RankedReceipts: registered on day 0, logged
\* in again on the day the first session expires, with one receipt created
\* on each day since, the n-th in the n-th seeded category.  The receipts of
\* the first half may carry the total of their mirror in the second half, so
\* that totals tie; the last receipt may carry no category, or the category
\* of the first.
RankedReceipts == 12

RankedReceipt(n, total, category_id) ==
    [ receipt_id |-> ReceiptId(n),
      user_id |-> UserId(1),
      merchant_name |-> <<"M">>,
      date |-> DateTimeOf(n),
      total |-> total,
      tax |-> 0,
      items |-> <<>>,
      payment_method |-> "",
      section |-> "personal",
      category_id |-> category_id,
      notes |-> "",
      image_base64 |-> "",
      created_at |-> n ]

InitRanking ==
    /\ users = { RegisterUserDoc([email |-> <<"a">>, password |-> "p1", name |-> "N"], 1, 0) }
    /\ user_sessions = { create_session(UserId(1), 1, 0),
                         create_session(UserId(1), 2, SESSION_TTL_DAYS) }
    /\ categories = seed_default_categories(UserId(1), 0, 0)
    /\ \E mirrored \in SUBSET (1..(RankedReceipts \div 2)),
          last \in { CategoryId(RankedReceipts), "", CategoryId(1) } :
          receipts = { RankedReceipt(n,
                           100 * (IF n \in mirrored THEN RankedReceipts + 1 - n ELSE n),
                           IF n = RankedReceipts THEN last ELSE CategoryId(n)) :
                       n \in 1..RankedReceipts }
    /\ now = RankedReceipts
    /\ uuid = [user |-> 1, sess |-> 2, cat |-> SeedCount, rcpt |-> RankedReceipts]
    /\ resp = Response("idle", <<>>, Null, Ok(Null))
    /\ issued = { <<SessionToken(1), UserId(1)>>, <<SessionToken(2), UserId(1)>> }
    /\ revoked = {}
    /\ inflight = <<>>

NextRanking ==
    \/ \E header \in TenantHeaders : Idle /\ GetDashboardSummary(header)
    \/ Deliver

\* ------------------------- delete_category and the dashboard, await by await
\* delete_category up to its delete_one: the count_documents of line 294 has
\* returned.
DeleteCategoryCount(header, category_id) ==
    LET auth == get_current_user(header)
        req == [category_id |-> category_id]
    IN
    IF auth.status # 200
    THEN Reply("delete_category", header, req, auth)
    ELSE LET receipt_count == Cardinality(ReceiptsUsing(category_id, auth.body.user_id)) IN
         IF receipt_count > 0
         THEN Reply("delete_category", header, req,
                    Ok([message |-> "Warning", receipt_count |-> receipt_count, deleted |-> FALSE]))
         ELSE /\ Len(inflight) < MaxInflight
              /\ inflight' = Append(inflight,
                     Suspend("delete_category", "delete_one",
                             [header |-> header, category_id |-> category_id], auth.body))
              /\ UNCHANGED <<db, now, uuid, resp, issued, revoked>>

\* Lines 300-305: the delete_one and the answer.
DeleteCategoryRemove(i) ==
    /\ inflight[i].pc = "delete_one"
    /\ LET r == inflight[i]
           req == [category_id |-> r.req.category_id]
           matched == MatchCategory(r.req.category_id, r.user.user_id)
       IN  IF matched = {}
           THEN /\ resp' = Response("delete_category", r.req.header, req,
                                HTTPException(404, "Category not found"))
                /\ UNCHANGED categories
           ELSE /\ categories' = categories \ matched
                /\ resp' = Response("delete_category", r.req.header, req,
                                Ok([message |-> "Category deleted", deleted |-> TRUE]))
    /\ inflight' = RemoveAt(inflight, i)
    /\ UNCHANGED <<users, user_sessions, receipts, now, uuid, issued, revoked>>

\* get_dashboard_summary up to its second aggregate: the dates of lines
\* 479-482 are taken and the monthly aggregate of line 489 has returned.
DashboardMonthly(header) ==
    LET auth == get_current_user(header) IN
    IF auth.status # 200
    THEN Reply("dashboard_summary", header, Null, auth)
    ELSE /\ Len(inflight) < MaxInflight
         /\ inflight' = Append(inflight,
                [ op |-> "dashboard_summary", pc |-> "yearly", req |-> header,
                  user |-> auth.body, token |-> "", today |-> now,
                  monthly |-> WindowTotals(Window(auth.body.user_id, MonthStart(now), Today(now))) ])
         /\ UNCHANGED <<db, now, uuid, resp, issued, revoked>>

\* Lines 492-551: the yearly aggregate and the queries after it, and the
\* answer.
DashboardRest(i) ==
    /\ inflight[i].pc = "yearly"
    /\ LET r == inflight[i]
           user_id == r.user.user_id
           yearly == Window(user_id, YearStart(r.today), Today(r.today))
       IN  \E ranked \in SortedSeqs(CategoryGroups(yearly), "total"),
              newest \in SortedSeqs(OwnedBy(receipts, user_id), "created_at") :
              LET recent == Page(newest, 0, RECENT_LIMIT) IN
              resp' = Response("dashboard_summary", r.req, Null,
                          Ok([ monthly |-> r.monthly,
                               yearly |-> WindowTotals(yearly),
                               sections |-> SectionBreakdown(yearly),
                               categories |-> CategoryRows(Page(ranked, 0, TOP_CATEGORIES)),
                               recent_receipts |->
                                   RecentRows([j \in DOMAIN recent |-> WithoutImage(recent[j])]) ]))
    /\ inflight' = RemoveAt(inflight, i)
    /\ UNCHANGED <<db, now, uuid, issued, revoked>>

\* One user's requests: receipts in the first seeded category dated today,
\* moved to the second seeded category or deleted, while a delete_category
\* or a dashboard summary is suspended.
NextInterleave ==
    \/ \E data \in GateRegisterInputs : Idle /\ Register(data)
    \/ \E header \in TenantHeaders, data \in { d \in DashboardReceiptInputs : d.date = DateTimeOf(0) } :
          Idle /\ CreateReceipt(header, data)
    \/ \E header \in TenantHeaders :
          Idle /\ UpdateReceipt(header, ReceiptId(1), [category_id |-> CategoryId(2)])
    \/ \E header \in TenantHeaders : Idle /\ DeleteReceipt(header, ReceiptId(1))
    \/ \E header \in TenantHeaders, id \in { CategoryId(1), CategoryId(2) } :
          Idle /\ DeleteCategoryCount(header, id)
    \/ \E i \in DOMAIN inflight : Idle /\ DeleteCategoryRemove(i)
    \/ \E header \in TenantHeaders : Idle /\ DashboardMonthly(header)
    \/ \E i \in DOMAIN inflight : Idle /\ DashboardRest(i)
    \/ Deliver

Spec == Init /\ [][Next]_vars
SpecProfile == Init /\ [][NextProfile]_vars
SpecGate == Init /\ [][NextGate]_vars
SpecTenant == Init /\ [][NextTenant]_vars
SpecReports == Init /\ [][NextReports]_vars
SpecRace == Init /\ [][NextRace]_vars
SpecCategories == Init /\ [][NextCategories]_vars
SpecDashboard == Init /\ [][NextDashboard]_vars
SpecReceipts == Init /\ [][NextReceipts]_vars
SpecRanking == InitRanking /\ [][NextRanking]_vars
SpecInterleave == Init /\ [][NextInterleave]_vars


\* ====================================================================
\* Properties of the session gate and the account endpoints
\* ====================================================================
SessionsOf(token) == { x \in user_sessions : x.session_token = token }

\* C1 (as claimed): GET /auth/me with a Bearer header answers 200 if and only
\* if a session with the extracted token is stored, its expiry is strictly
\* later than now, and its user exists; a session with expires_at = now is
\* refused.
C1_AcceptsIffStrictlyUnexpired ==
    (resp.ep = "me" /\ StartsWithBearer(resp.header)) =>
        ( resp.status = 200 <=>
            \E x \in SessionsOf(SplitBearer(resp.header)) :
                /\ x.expires_at > now
                /\ FindUsersById(users, x.user_id) # {} )

\* C2: a token that a completed logout removed while it was valid is refused
\* with 401 in every later state, and no stored session carries it again.
C2_LoggedOutTokenStaysInvalid ==
    \A token \in revoked :
        /\ get_current_user(<<BEARER, token>>).status = 401
        /\ SessionsOf(token) = {}

\* C2 witness: after the logout of a valid token further sessions were issued
\* and an authentication with the revoked token was answered 401.
C2_Witness ==
    /\ resp.ep = "me" /\ resp.status = 401
    /\ StartsWithBearer(resp.header) /\ SplitBearer(resp.header) \in revoked
    /\ \E x \in user_sessions : x.created_at > 0
    /\ uuid.sess = MaxSessions

\* C3: a 200 from GET /auth/me carries the record of the user the token was
\* issued for, and of no other user; and an issued token whose session is
\* stored and expires strictly later than now is answered 200.
C3_TokenAuthenticatesItsOwner ==
    (resp.ep = "me" /\ StartsWithBearer(resp.header)) =>
        LET token == SplitBearer(resp.header)
            owners == { p[2] : p \in { q \in issued : q[1] = token } }
        IN  /\ resp.status = 200 =>
                /\ owners = { resp.body.user_id }
                /\ \E u \in users : SafeUser(u) = resp.body
            /\ (\E x \in SessionsOf(token) : x.expires_at > now) =>
                resp.status = 200

\* C3 witness: two users hold sessions, and the second user's token was
\* answered with the second user's record.
C3_Witness ==
    /\ resp.ep = "me" /\ resp.status = 200
    /\ Cardinality(users) = 2
    /\ Cardinality({ x.user_id : x \in user_sessions }) = 2
    /\ resp.body.user_id = UserId(2)

\* The user records a response carries.
UserRecordsOf(r) ==
    IF r.status # 200 THEN {}
    ELSE IF r.ep \in {"register", "login", "google-session"} THEN { r.body.user }
    ELSE IF r.ep \in {"me", "settings"} THEN { r.body }
    ELSE {}

\* C6: no user record in a response of register, login, google-session,
\* auth/me or settings has a password_hash field.
C6_NoPasswordHashInResponses ==
    \A u \in UserRecordsOf(resp) : "password_hash" \notin DOMAIN u

\* C6 witness: auth/me answered for a user who registered with a password
\* while a user created by external auth exists too.
C6_Witness ==
    /\ resp.ep = "me" /\ resp.status = 200
    /\ \E u \in users : u.user_id = resp.body.user_id /\ u.password_hash # ""
    /\ \E u \in users : u.auth_provider = "google"

\* C9: a register request whose lower-cased email is already stored is
\* answered 400 and leaves users, categories and sessions as they were.
C9_DuplicateEmailRejected ==
    [][ (resp'.ep = "register" /\ FindUsersByEmail(users, Lower(resp'.req.email)) # {}) =>
            /\ resp'.status = 400
            /\ users' = users
            /\ categories' = categories
            /\ user_sessions' = user_sessions ]_vars

\* C9 witness: a register with "A" was refused while "a" is registered.
C9_Witness ==
    /\ resp.ep = "register" /\ resp.status = 400
    /\ resp.req.email = <<"A">>
    /\ \E u \in users : u.email = <<"a">>

\* C10: a successful register adds exactly 28 categories, all owned by the
\* new user and all is_default, 14 in section personal and 14 in section
\* business, and leaves every category stored before as it was.
C10_RegisterSeeds28 ==
    [][ (resp'.ep = "register" /\ resp'.status = 200) =>
            LET added == categories' \ categories IN
            /\ categories \subseteq categories'
            /\ Cardinality(added) = 28
            /\ Cardinality({ c.category_id : c \in added }) = 28
            /\ { c.category_id : c \in added } \cap { c.category_id : c \in categories } = {}
            /\ \A c \in added : c.user_id = resp'.body.user.user_id /\ c.is_default
            /\ Cardinality({ c \in added : c.section = "personal" }) = 14
            /\ Cardinality({ c \in added : c.section = "business" }) = 14 ]_vars

\* C10 witness: a second user registered while the first user's categories
\* were stored.
C10_Witness ==
    /\ resp.ep = "register" /\ resp.status = 200
    /\ resp.body.user.user_id = UserId(2)
    /\ Cardinality(categories) = 56

\* ====================================================================
\* Properties of the data endpoints
\* ====================================================================
\* The user a header authenticates in the current state.
Caller(header) == get_current_user(header).body.user_id

ReceiptByIdEndpoints == { "get_receipt", "update_receipt", "delete_receipt" }
CategoryByIdEndpoints == { "update_category", "delete_category" }

\* r is a request by an authenticated user that names a receipt of another user.
ForeignReceipt(r) ==
    /\ r.ep \in ReceiptByIdEndpoints
    /\ get_current_user(r.header).status = 200
    /\ \E x \in receipts : x.receipt_id = r.req.receipt_id /\ x.user_id # Caller(r.header)

\* r is a request by an authenticated user that names a category of another user.
ForeignCategory(r) ==
    /\ r.ep \in CategoryByIdEndpoints
    /\ get_current_user(r.header).status = 200
    /\ \E c \in categories : c.category_id = r.req.category_id /\ c.user_id # Caller(r.header)

\* r is a 200 of a list endpoint that holds only the caller's records.
ListsOnlyOwn(r) ==
    /\ (r.ep = "get_categories" /\ r.status = 200) =>
           \A c \in r.body : c.user_id = Caller(r.header)
    /\ (r.ep = "get_receipts" /\ r.status = 200) =>
           \A i \in DOMAIN r.body.receipts : r.body.receipts[i].user_id = Caller(r.header)

\* C4 (as claimed): get_receipt, update_receipt, delete_receipt, update_category
\* and delete_category called with an id owned by another user answer 404 and
\* leave the store unchanged; get_categories and get_receipts return only the
\* caller's records.
C4_ForeignIdAnswers404 ==
    [][ /\ (ForeignReceipt(resp') \/ ForeignCategory(resp')) =>
               (resp'.status = 404 /\ db' = db)
        /\ ListsOnlyOwn(resp') ]_vars

\* C4 (amended): a request with an id owned by another user leaves the store
\* unchanged and is answered 404, except that update_receipt with an empty
\* body is answered 400 and delete_category is answered 200 with deleted =
\* false and the caller's own receipt count when receipts of the caller carry
\* that id; get_categories and get_receipts return only the caller's records.
C4_TenantIsolation ==
    [][ /\ ForeignReceipt(resp') =>
               /\ db' = db
               /\ resp'.status =
                      IF resp'.ep = "update_receipt" /\ DOMAIN resp'.req.data = {}
                      THEN 400 ELSE 404
        /\ ForeignCategory(resp') =>
               /\ db' = db
               /\ LET own == { x \in receipts : /\ x.category_id = resp'.req.category_id
                                                /\ x.user_id = Caller(resp'.header) }
                  IN  IF resp'.ep = "delete_category" /\ own # {}
                      THEN /\ resp'.status = 200
                           /\ resp'.body.deleted = FALSE
                           /\ resp'.body.receipt_count = Cardinality(own)
                      ELSE resp'.status = 404
        /\ ListsOnlyOwn(resp') ]_vars

\* C4 witness: a delete_receipt that named another user's receipt was
\* answered 404 and that receipt is still stored.
C4_Witness ==
    /\ resp.ep = "delete_receipt" /\ resp.status = 404
    /\ get_current_user(resp.header).status = 200
    /\ \E x \in receipts : x.receipt_id = resp.req.receipt_id /\ x.user_id # Caller(resp.header)

\* The category names a report response carries; "Unknown" and "" stand for
\* an id that resolved to no category.
ReportNames(r) ==
    IF r.status # 200 THEN {}
    ELSE IF r.ep = "dashboard_summary"
    THEN ({ r.body.categories[i].name : i \in DOMAIN r.body.categories } \ { "Unknown" })
         \cup ({ Get(r.body.recent_receipts[i], "category_name", "") :
                   i \in DOMAIN r.body.recent_receipts } \ { "" })
    ELSE IF r.ep = "tax_summary"
    THEN UNION { { r.body.summary[sec][i].category_name : i \in DOMAIN r.body.summary[sec] } :
                 sec \in DOMAIN r.body.summary } \ { "Unknown" }
    ELSE IF r.ep = "export_csv"
    THEN { r.body.rows[i].Category : i \in DOMAIN r.body.rows } \ { "" }
    ELSE {}

\* C5 (as claimed): every category name in a dashboard-summary, tax-summary
\* or export-csv response is the name of a category the caller owns.
C5_ReportNamesAreCallers ==
    \A name \in ReportNames(resp) :
        \E c \in categories : c.user_id = Caller(resp.header) /\ c.name = name

GuardedEndpoints ==
    { "get_categories", "create_category", "update_category", "delete_category",
      "get_receipts", "create_receipt", "get_receipt", "update_receipt", "delete_receipt",
      "ocr_scan", "dashboard_summary", "tax_summary", "export_csv", "settings" }

\* The header is missing, is not of the form "Bearer <token>", or carries a
\* token with no stored session that has not expired (lines 87-101).
GateRefuses(header) ==
    \/ header = <<>>
    \/ Head(header) # BEARER
    \/ ~\E x \in user_sessions :
           /\ x.session_token = SplitBearer(header)
           /\ ~(x.expires_at < now)
           /\ \E u \in users : u.user_id = x.user_id

\* C7: a request to a category, receipt, dashboard, report, settings or OCR
\* endpoint whose header the gate refuses is answered 401 with a body that
\* holds only the error detail, and users, sessions, categories and receipts
\* stay as they were.
C7_GuardedEndpointsRefuse ==
    [][ (resp'.ep \in GuardedEndpoints /\ GateRefuses(resp'.header)) =>
            /\ resp'.status = 401
            /\ DOMAIN resp'.body = { "detail" }
            /\ db' = db ]_vars

\* C7 witness: a delete_receipt that named a stored receipt with its owner's
\* expired token was answered 401.
C7_Witness ==
    /\ resp.ep = "delete_receipt" /\ resp.status = 401
    /\ StartsWithBearer(resp.header)
    /\ \E x \in SessionsOf(SplitBearer(resp.header)) :
           /\ x.expires_at < now
           /\ \E r \in receipts : r.receipt_id = resp.req.receipt_id /\ r.user_id = x.user_id

\* C8 (as claimed): no two user records have the same lower-cased email.
C8_EmailUniqueCaseInsensitive ==
    \A u, v \in users : Lower(u.email) = Lower(v.email) => u = v

\* ====================================================================
\* Properties of login and logout
\* ====================================================================
\* C11: a login whose lower-cased email is unknown, whose account has an
\* empty password credential, or whose password does not match the stored
\* credential is answered 401 and leaves the store and the token counter as
\* they were; a login step adds a session only when it answers 200, and then
\* exactly one, for the user with that email.
C11_LoginFailsWithoutSession ==
    [][ resp'.ep = "login" =>
            LET found == { u \in users : u.email = Lower(resp'.req.email) }
                bad == \/ found = {}
                       \/ \E u \in found : u.password_hash = ""
                       \/ \E u \in found : u.password_hash # hashpw(resp'.req.password)
            IN  /\ bad => (resp'.status = 401 /\ db' = db /\ uuid' = uuid)
                /\ user_sessions' # user_sessions =>
                       /\ resp'.status = 200 /\ ~bad
                       /\ \E x \in user_sessions' \ user_sessions :
                              /\ user_sessions' = user_sessions \cup {x}
                              /\ x.session_token = resp'.body.token
                              /\ \E u \in found : u.user_id = x.user_id ]_vars

\* C11 witness: a login with the password "p1" for an account created by
\* external auth was refused while a password account exists too.
C11_Witness ==
    /\ resp.ep = "login" /\ resp.status = 401
    /\ resp.body.detail = "Please use Google Sign-In for this account"
    /\ \E u \in users : u.email = Lower(resp.req.email) /\ u.auth_provider = "google"
    /\ \E u \in users : u.password_hash = hashpw(resp.req.password)

\* C12: logout is answered 200 with its message whatever the header; it
\* leaves users, categories and receipts alone; when the header does not
\* start with "Bearer " or no stored session carries the extracted token the
\* session store is unchanged; otherwise exactly the sessions with that token
\* are removed, so that a second logout with the same header finds nothing
\* to remove.
C12_LogoutIdempotent ==
    [][ resp'.ep = "logout" =>
            LET header == resp'.header
                bearer == header # <<>> /\ Head(header) = BEARER
                carried == IF bearer
                           THEN { x \in user_sessions : x.session_token = SplitBearer(header) }
                           ELSE {}
            IN  /\ resp'.status = 200
                /\ resp'.body = [message |-> "Logged out"]
                /\ <<users', categories', receipts'>> = <<users, categories, receipts>>
                /\ user_sessions' = user_sessions \ carried
                /\ carried = {} => user_sessions' = user_sessions
                /\ bearer => ~\E x \in user_sessions' : x.session_token = SplitBearer(header) ]_vars

\* C12 witness: a logout with a token that an earlier logout had removed
\* was answered 200 while another session is stored.
C12_Witness ==
    /\ resp.ep = "logout" /\ resp.status = 200
    /\ StartsWithBearer(resp.header)
    /\ SplitBearer(resp.header) \in revoked
    /\ user_sessions # {}

\* ====================================================================
\* Properties of the session records
\* ====================================================================
AuthenticatedEndpoints == GuardedEndpoints \cup { "me" }

\* C13: a request to an endpoint behind the gate, accepted or refused, leaves
\* every session record as it was, and every stored session keeps the expiry
\* it was created with (created_at + 7 days).
C13_NoImplicitRenewal ==
    [][ resp'.ep \in AuthenticatedEndpoints =>
            /\ user_sessions' = user_sessions
            /\ \A x \in user_sessions' : x.expires_at = x.created_at + SESSION_TTL_DAYS ]_vars

\* C13 witness: an update_receipt authenticated by a stored session changed
\* a receipt.
C13_Witness ==
    /\ resp.ep = "update_receipt" /\ resp.status = 200
    /\ \E x \in SessionsOf(SplitBearer(resp.header)) :
           \E r \in receipts : r.user_id = x.user_id /\ r.total = 2500

\* ====================================================================
\* Properties of delete_category
\* ====================================================================
\* The receipts of the header's user that carry the category id.
CallerReceiptsWith(header, category_id) ==
    { r \in receipts : r.category_id = category_id /\ r.user_id = Caller(header) }

\* C14: delete_category by an authenticated caller N > 0 of whose receipts
\* carry the id is answered 200 with deleted = false and receipt_count = N,
\* and the four collections stay as they were.
C14_DeleteBlockedByReceipts ==
    [][ ( /\ resp'.ep = "delete_category"
          /\ get_current_user(resp'.header).status = 200
          /\ CallerReceiptsWith(resp'.header, resp'.req.category_id) # {} ) =>
            /\ resp'.status = 200
            /\ resp'.body.deleted = FALSE
            /\ resp'.body.receipt_count =
                   Cardinality(CallerReceiptsWith(resp'.header, resp'.req.category_id))
            /\ db' = db ]_vars

\* C14 witness: the deletion of a category of the caller was refused with a
\* count of 1 while a receipt of another user carries the same id, and the
\* category is still stored.
C14_Witness ==
    /\ resp.ep = "delete_category" /\ resp.status = 200
    /\ resp.body.deleted = FALSE /\ resp.body.receipt_count = 1
    /\ \E c \in categories : c.category_id = resp.req.category_id /\ c.user_id = Caller(resp.header)
    /\ \E r \in receipts : r.category_id = resp.req.category_id /\ r.user_id # Caller(resp.header)

\* C15: delete_category by an authenticated caller none of whose receipts
\* carry the id: when the caller owns a category with that id, seeded or
\* not, the answer is 200 with deleted = true and exactly that category
\* leaves the store; otherwise the answer is 404 and the store is unchanged.
\* get_categories lists exactly the caller's stored categories, and a
\* category that enters the store carries an id drawn after every earlier id.
C15_DeleteRemovesExactlyOne ==
    [][ /\ ( /\ resp'.ep = "delete_category"
             /\ get_current_user(resp'.header).status = 200
             /\ CallerReceiptsWith(resp'.header, resp'.req.category_id) = {} ) =>
               LET mine == { c \in categories : /\ c.category_id = resp'.req.category_id
                                                /\ c.user_id = Caller(resp'.header) }
               IN  IF mine # {}
                   THEN /\ resp'.status = 200 /\ resp'.body.deleted = TRUE
                        /\ Cardinality(mine) = 1
                        /\ categories' = categories \ mine
                        /\ <<users', user_sessions', receipts'>> = <<users, user_sessions, receipts>>
                   ELSE resp'.status = 404 /\ db' = db
        /\ (resp'.ep = "get_categories" /\ resp'.status = 200) =>
               resp'.body = { c \in categories : c.user_id = Caller(resp'.header) }
        /\ \A c \in categories' \ categories :
               \E n \in (uuid.cat + 1)..(uuid'.cat) : c.category_id = CategoryId(n) ]_vars

\* C15 witness: with two users registered, the one category a user created
\* was deleted after a seeded category had been deleted too.
C15_Witness ==
    /\ resp.ep = "delete_category" /\ resp.status = 200 /\ resp.body.deleted = TRUE
    /\ resp.req.category_id = CategoryId(2 * SeedCount + 1)
    /\ uuid.cat = 2 * SeedCount + 1
    /\ Cardinality(categories) = 2 * SeedCount - 1

\* ====================================================================
\* Properties of the dashboard and the listing
\* ====================================================================
\* A YYYY-MM-DD date as the number YYYYMMDD.
DateNumber(d) == d[1] * 10000 + d[2] * 100 + d[3]

\* The receipts of a user dated from..to, both inclusive, in calendar order.
DatedBetween(user_id, from, to) ==
    { r \in receipts : /\ r.user_id = user_id
                       /\ r.date # <<>>
                       /\ DateNumber(from) <= DateNumber(r.date)
                       /\ DateNumber(r.date) <= DateNumber(to) }

Figures(docs) ==
    [total |-> SumOf(docs, "total"), tax |-> SumOf(docs, "tax"), count |-> Cardinality(docs)]

\* C16: in a dashboard response, monthly (yearly) holds the sum of total,
\* the sum of tax and the count of the caller's receipts dated from the first
\* day of the current month (year) to today, both inclusive; with no such
\* receipt it holds total 0, tax 0, count 0.
C16_WindowFigures ==
    (resp.ep = "dashboard_summary" /\ resp.status = 200) =>
        LET today == DateTimeOf(now)
            monthly == DatedBetween(Caller(resp.header), <<today[1], today[2], 1>>, today)
            yearly == DatedBetween(Caller(resp.header), <<today[1], 1, 1>>, today)
        IN  /\ resp.body.monthly = Figures(monthly)
            /\ resp.body.yearly = Figures(yearly)
            /\ monthly = {} => resp.body.monthly = [total |-> 0, tax |-> 0, count |-> 0]
            /\ yearly = {} => resp.body.yearly = [total |-> 0, tax |-> 0, count |-> 0]

\* C16 witness: on day 0 the caller holds a receipt dated today and one
\* dated in the month before; the month counts one and the year two.
C16_Witness ==
    /\ resp.ep = "dashboard_summary" /\ resp.status = 200
    /\ now = 0
    /\ resp.body.monthly = [total |-> 10000, tax |-> 1300, count |-> 1]
    /\ resp.body.yearly = [total |-> 20000, tax |-> 2600, count |-> 2]
    /\ \E r \in receipts : r.user_id = Caller(resp.header) /\ r.date = DateTimeOf(0)
    /\ \E r \in receipts : r.user_id = Caller(resp.header) /\ r.date = <<2025, 11, 30>>

\* C17: a get_receipts response to a request with a section filter lists
\* only receipts of the caller with exactly that section, no more of them
\* than limit, and its total is the number of all receipts of the caller
\* that match the filter, whatever skip and limit are.
C17_SectionFilterAndTotal ==
    ( /\ resp.ep = "get_receipts" /\ resp.status = 200
      /\ "section" \in DOMAIN resp.req ) =>
        LET matching == { r \in receipts : /\ r.user_id = Caller(resp.header)
                                           /\ r.section = resp.req.section }
            rows == resp.body.receipts
        IN  /\ \A i \in DOMAIN rows :
                   /\ rows[i].user_id = Caller(resp.header)
                   /\ rows[i].section = resp.req.section
                   /\ \E r \in matching : r.receipt_id = rows[i].receipt_id
            /\ \A i, j \in DOMAIN rows : i # j => rows[i].receipt_id # rows[j].receipt_id
            /\ "limit" \in DOMAIN resp.req => Len(rows) <= resp.req.limit
            /\ resp.body.total = Cardinality(matching)

\* C17 witness: with skip 1 and limit 1 the page holds one receipt and the
\* total is 2.
C17_Witness ==
    /\ resp.ep = "get_receipts" /\ resp.status = 200
    /\ "skip" \in DOMAIN resp.req /\ resp.req.skip = 1
    /\ Len(resp.body.receipts) = 1
    /\ resp.body.total = 2

\* C19 (as claimed): in a tax summary, totals.personal.count plus
\* totals.business.count is the number of the caller's receipts that match
\* the request's filters.
C19_SectionCountsPartition ==
    (resp.ep = "tax_summary" /\ resp.status = 200) =>
        resp.body.totals["personal"].count + resp.body.totals["business"].count
            = Cardinality({ r \in receipts :
                  /\ r.user_id = Caller(resp.header)
                  /\ "section" \in DOMAIN resp.req => r.section = resp.req.section
                  /\ "date_from" \in DOMAIN resp.req =>
                         DateNumber(resp.req.date_from) <= DateNumber(r.date)
                  /\ "date_to" \in DOMAIN resp.req =>
                         DateNumber(r.date) <= DateNumber(resp.req.date_to) })

\* C20 (as claimed): every stored receipt has total >= 0 and tax >= 0.
C20_AmountsNonNegative ==
    \A r \in receipts : r.total >= 0 /\ r.tax >= 0

\* ====================================================================
\* Properties of the dashboard's category ranking
\* ====================================================================
\* The distinct truthy category ids of the caller's receipts of the year.
RankedCategoryIds ==
    { r.category_id :
      r \in { x \in Window(Caller(resp.header), YearStart(now), Today(now)) :
                Truthy(x.category_id) } }

\* C18: the category breakdown of a dashboard summary has at most ten rows,
\* and every row's total is at least the total of the row after it.
C18_TopCategoriesRanked ==
    (resp.ep = "dashboard_summary" /\ resp.status = 200) =>
        LET rows == resp.body.categories IN
        /\ Len(rows) <= 10
        /\ \A i, j \in DOMAIN rows : i < j => rows[i].total >= rows[j].total

\* A summary of ten rows for a caller with more than ten categories in the
\* year, two of the rows with equal totals.
C18_Witness ==
    /\ resp.ep = "dashboard_summary" /\ resp.status = 200
    /\ Cardinality(RankedCategoryIds) > 10
    /\ Len(resp.body.categories) = 10
    /\ \E i \in DOMAIN resp.body.categories :
          /\ i + 1 \in DOMAIN resp.body.categories
          /\ resp.body.categories[i].total = resp.body.categories[i + 1].total


\* ====================================================================
\* Properties of the stored section tags
\* ====================================================================
\* C21: the section of every stored category and of every stored receipt is
\* "personal" or "business".
C21_SectionsAreTags ==
    /\ \A c \in categories : c.section \in { "personal", "business" }
    /\ \A r \in receipts : r.section \in { "personal", "business" }


\* ====================================================================
\* Properties of the life of a session
\* ====================================================================
\* C22: every session expires exactly 7 days after it was issued; GET
\* /auth/me with the token of a stored session answers 200 before that time
\* and 401 after it; and a session leaves the store only by the logout that
\* presents its token, never by the passing of time.
C22_SevenDaysLazily ==
    [][ /\ \A s \in user_sessions' :
              /\ s.expires_at = s.created_at + 7
              /\ s \notin user_sessions => s.created_at = now
        /\ (resp'.ep = "me" /\ StartsWithBearer(resp'.header)) =>
              \A s \in { x \in user_sessions' : x.session_token = SplitBearer(resp'.header) } :
                  /\ now' < s.created_at + 7 => resp'.status = 200
                  /\ now' > s.created_at + 7 => resp'.status = 401
        /\ \A s \in user_sessions \ user_sessions' :
              /\ resp'.ep = "logout"
              /\ StartsWithBearer(resp'.header)
              /\ SplitBearer(resp'.header) = s.session_token
      ]_vars

\* C22 witness: a token is refused after its seven days, and its session is
\* still stored.
C22_Witness ==
    /\ resp.ep = "me" /\ resp.status = 401
    /\ StartsWithBearer(resp.header)
    /\ \E s \in SessionsOf(SplitBearer(resp.header)) : now > s.created_at + 7


\* ====================================================================
\* Properties of the tax summary
\* ====================================================================
\* C23: in a tax summary, the totals of each of the two sections are the
\* sums of total, tax and count over the rows of summary for that section.
C23_TotalsSumTheRows ==
    (resp.ep = "tax_summary" /\ resp.status = 200) =>
        \A sec \in { "personal", "business" } :
            LET rows == SeqToSet(resp.body.summary[sec]) IN
            /\ Cardinality(rows) = Len(resp.body.summary[sec])
            /\ resp.body.totals[sec] =
                 [ total |-> SumOf(rows, "total"),
                   tax |-> SumOf(rows, "tax"),
                   count |-> SumOf(rows, "count") ]

\* C23 witness: a summary with two rows in a section.
C23_Witness ==
    /\ resp.ep = "tax_summary" /\ resp.status = 200
    /\ Len(resp.body.summary.personal) = 2
    /\ resp.body.totals.personal.count = 2


\* C24: in a tax summary, every matching receipt whose category_id is empty
\* or names no category is counted in a row of summary[its section] that
\* carries its category_id and the sentinel name, and in totals[its section].
C24_UncategorisedStillAttributed ==
    (resp.ep = "tax_summary" /\ resp.status = 200) =>
        LET matching == ReportQuery(Caller(resp.header), resp.req)
            Uncategorised(r) ==
                \/ ~Truthy(r.category_id)
                \/ ~(\E c \in categories : c.category_id = r.category_id)
        IN  \A r \in { x \in matching : Uncategorised(x) } :
                /\ r.section \in DOMAIN resp.body.summary
                /\ \E i \in DOMAIN resp.body.summary[r.section] :
                      LET row == resp.body.summary[r.section][i] IN
                      /\ row.category_id = r.category_id
                      /\ row.category_name = "Unknown"
                      /\ row.count >= 1
                      /\ resp.body.totals[r.section].count >= row.count


\* ====================================================================
\* Properties of the receipt listing
\* ====================================================================
\* C25: a get_receipts response holds, in descending order of date, the
\* receipts at positions skip .. skip + limit - 1 of the caller's receipts
\* that satisfy every supplied filter: section and category_id by equality,
\* date_from <= date <= date_to and amount_min <= total <= amount_max with
\* inclusive bounds, each bound optional.
C25_FilteredSlice ==
    (resp.ep = "get_receipts" /\ resp.status = 200) =>
        LET p == resp.req
            Satisfies(r) ==
                /\ "section" \in DOMAIN p => r.section = p.section
                /\ "category_id" \in DOMAIN p => r.category_id = p.category_id
                /\ "date_from" \in DOMAIN p => DateNumber(p.date_from) <= DateNumber(r.date)
                /\ "date_to" \in DOMAIN p => DateNumber(r.date) <= DateNumber(p.date_to)
                /\ "amount_min" \in DOMAIN p => p.amount_min <= r.total
                /\ "amount_max" \in DOMAIN p => r.total <= p.amount_max
            matching == { r \in receipts : r.user_id = Caller(resp.header) /\ Satisfies(r) }
            skip == IF "skip" \in DOMAIN p THEN p.skip ELSE 0
            limit == IF "limit" \in DOMAIN p THEN p.limit ELSE 50
            rows == resp.body.receipts
            listed == { r \in matching : \E i \in DOMAIN rows : rows[i].receipt_id = r.receipt_id }
            rest == matching \ listed
            available == IF Cardinality(matching) > skip THEN Cardinality(matching) - skip ELSE 0
        IN  /\ Len(rows) = (IF available < limit THEN available ELSE limit)
            /\ Cardinality(listed) = Len(rows)
            /\ \A i \in DOMAIN rows :
                  \E r \in matching :
                      /\ r.receipt_id = rows[i].receipt_id
                      /\ \A k \in DOMAIN rows[i] : rows[i][k] = r[k]
            /\ \A i, j \in DOMAIN rows :
                  i < j => DateNumber(rows[i].date) >= DateNumber(rows[j].date)
            /\ rows # <<>> =>
                  \E before \in SUBSET rest :
                      /\ Cardinality(before) = skip
                      /\ \A b \in before, i \in DOMAIN rows :
                            DateNumber(b.date) >= DateNumber(rows[i].date)
                      /\ \A a \in rest \ before, i \in DOMAIN rows :
                            DateNumber(a.date) <= DateNumber(rows[i].date)

\* C25 witness: an amount range whose two bounds equal the total of the one
\* receipt listed, while the caller has another receipt outside the range.
C25_Witness ==
    /\ resp.ep = "get_receipts" /\ resp.status = 200
    /\ "amount_max" \in DOMAIN resp.req
    /\ Len(resp.body.receipts) = 1
    /\ resp.body.receipts[1].total = resp.req.amount_max
    /\ resp.body.receipts[1].total = resp.req.amount_min
    /\ \E r \in receipts : r.user_id = Caller(resp.header) /\ r.total > resp.req.amount_max


\* ====================================================================
\* Properties of the two ways to sign in
\* ====================================================================
\* C26 (as claimed): a session is handed out by login only to a user created
\* by password registration, and by google-session only to a user created by
\* the external-auth exchange.
C26_OneMechanismPerUser ==
    /\ (resp.ep = "login" /\ resp.status = 200) =>
          \A u \in FindUsersById(users, resp.body.user.user_id) : u.auth_provider = "email"
    /\ (resp.ep = "google-session" /\ resp.status = 200) =>
          \A u \in FindUsersById(users, resp.body.user.user_id) : u.auth_provider = "google"


\* ====================================================================
\* Properties under interleaved requests
\* ====================================================================
\* C27 (as claimed): when delete_category answers deleted = true, no receipt
\* of the caller references the category it removed.
C27_DeletedCategoryUnreferenced ==
    (resp.ep = "delete_category" /\ resp.status = 200 /\ resp.body.deleted) =>
        CallerReceiptsWith(resp.header, resp.req.category_id) = {}

\* C30 (as claimed): in a dashboard summary, monthly.count <= yearly.count.
C30_MonthlyWithinYearly ==
    (resp.ep = "dashboard_summary" /\ resp.status = 200) =>
        resp.body.monthly.count <= resp.body.yearly.count


\* C28 (as claimed): whenever a user record is stored, the 28 seeded
\* categories of that user are stored too.
C28_UserComesWithCategories ==
    \A u \in users : Cardinality({ c \in categories : c.user_id = u.user_id }) = 28


\* ====================================================================
\* Properties of the session store
\* ====================================================================
\* C29: a successful register, login or google-session adds exactly one
\* session, whose token was never issued before, and removes none; a logout
\* removes the sessions with the presented token and no other; and in either
\* case every session that stays is accepted afterwards exactly if it was
\* accepted before.
C29_SessionsAreIndependent ==
    [][ /\ (Idle /\ resp'.ep \in {"register", "login", "google-session"} /\ resp'.status = 200) =>
              \E s \in user_sessions' \ user_sessions :
                  /\ user_sessions' = user_sessions \cup {s}
                  /\ s.session_token = resp'.body.token
                  /\ \A p \in issued : p[1] # s.session_token
        /\ (Idle /\ resp'.ep = "logout") =>
              user_sessions' =
                  IF StartsWithBearer(resp'.header)
                  THEN user_sessions \ SessionsOf(SplitBearer(resp'.header))
                  ELSE user_sessions
        /\ (Idle /\ resp'.ep \in {"register", "login", "google-session", "logout"}) =>
              \A s \in user_sessions \cap user_sessions' :
                  Authenticate(<<BEARER, s.session_token>>, user_sessions', users', now').status
                      = get_current_user(<<BEARER, s.session_token>>).status
      ]_vars

\* C29 witness: a user with two accepted sessions logged one of them out,
\* and the other is stored and still accepted.
C29_Witness ==
    /\ resp.ep = "logout" /\ StartsWithBearer(resp.header)
    /\ SplitBearer(resp.header) \in revoked
    /\ SessionsOf(SplitBearer(resp.header)) = {}
    /\ \E s \in user_sessions :
          /\ <<SplitBearer(resp.header), s.user_id>> \in issued
          /\ get_current_user(<<BEARER, s.session_token>>).status = 200


\* C31 (as claimed): the category breakdown of a dashboard summary has
\* exactly min(10, K) rows, K being the number of distinct non-empty
\* category ids among the caller's receipts of the year.
C31_ExactlyTopTenRows ==
    (resp.ep = "dashboard_summary" /\ resp.status = 200) =>
        LET K == Cardinality(RankedCategoryIds) IN
        Len(resp.body.categories) = (IF K < 10 THEN K ELSE 10)

====
